---- MODULE Spec2Model ----
(***************************************************************************)
(* d2calc: interpreter of the D2F formula mini-language.                   *)
(*                                                                         *)
(* The model follows the evaluator of src/src/interpreter.js and the       *)
(* int32 primitives of src/src/int32.js.  JavaScript numbers are modelled  *)
(* as integers; the 32-bit word of the program is scaled to WordBits bits  *)
(* (TLC's integers are themselves 32 bits wide, so 2^32 cannot be          *)
(* written), and every limit of the word is derived from WordBits.         *)
(*                                                                         *)
(* An evaluation is computed in one step, as the synchronous tree walk of  *)
(* the code is.  Its outcome records the value returned or the error       *)
(* thrown, and the ordered list of the calls made to the caller-supplied   *)
(* members of the environment.                                             *)
(***************************************************************************)
EXTENDS Integers, Sequences, FiniteSets, TLC

VARIABLES pc, input, formula, environment, outcome,
          astCache_, parses, history, candidate

vars == <<pc, input, formula, environment, outcome,
          astCache_, parses, history, candidate>>

\* what a call of one of the exported functions leaves alone
cache == <<astCache_, parses, history>>

(***************************************************************************)
(* Bounds                                                                  *)
(***************************************************************************)
\* Width of the machine word (32 in the program).
WordBits == 5

\* Digits of a chunk of parseInt32 (15 in the program, where a chunk is below
\* 2^53 and the word has 32 bits; here a chunk is shorter than the word too).
ChunkDigits == 2

\* Calls made to one cached interpreter.
MaxCalls == 3

TwoToWordBits == 2 ^ WordBits
INT32_MAX == 2 ^ (WordBits - 1) - 1
INT32_MIN == -(2 ^ (WordBits - 1))
UINT32_MAX == TwoToWordBits - 1
Int32 == INT32_MIN .. INT32_MAX

(***************************************************************************)
(* Int32 primitives (src/src/int32.js)                                     *)
(***************************************************************************)
\* A variant of toInt32: the value is returned as it is (the code before
\* release 0.1.1 did not coerce).
toInt32_uncoerced(num) == num

\* num | 0
toInt32(num) == ((num + 2 ^ (WordBits - 1)) % TwoToWordBits) - 2 ^ (WordBits - 1)

\* A variant of Math_imul: the plain product of the operands.
Math_imul_plain(a, b) == a * b

\* Math.imul(a, b): both operands are coerced to int32 and the low bits of
\* their product are returned.
Math_imul(a, b) == toInt32(toInt32(a) * toInt32(b))

Abs(n) == IF n < 0 THEN -n ELSE n

\* A variant of Math_trunc_div: the floored quotient.
Math_floor_div(a, b) == IF b < 0 THEN (-a) \div (-b) ELSE a \div b

\* Math.trunc(a / b) for b # 0: the quotient without its fractional part.
Math_trunc_div(a, b) ==
    IF (a < 0) = (b < 0) THEN Abs(a) \div Abs(b) ELSE -(Abs(a) \div Abs(b))

(***************************************************************************)
(* Errors (src/src/errors.js) and outcomes of an evaluation                *)
(***************************************************************************)
\* The classes of src/src/errors.js and the built-in Error, all of which
\* are instances of Error.  A thrown value of another class (a thrown
\* string, for one) is no instance of Error.
ErrorClasses ==
    {"Error", "TypeError", "D2CalcError", "D2CalcInternalError", "D2FError",
     "D2FSyntaxError", "D2FInterpreterError"}

instanceofError(e) == e.class \in ErrorClasses

NoError == [class |-> "none", id |-> "", message |-> <<>>]

\* new D2FInterpreterError(message)
D2FInterpreterError(message) ==
    [class |-> "D2FInterpreterError", id |-> "d2calc", message |-> message]

\* new D2CalcInternalError(message)
D2CalcInternalError(message) ==
    [class |-> "D2CalcInternalError", id |-> "d2calc", message |-> message]

\* return value, after the calls listed were made to the environment
Return(value, calls) ==
    [kind |-> "return", value |-> value, error |-> NoError, calls |-> calls]

\* throw error, after the calls listed were made to the environment
Throw(error, calls) ==
    [kind |-> "throw", value |-> 0, error |-> error, calls |-> calls]

(***************************************************************************)
(* The environment (typedef InterpreterEnvironment).  A table is a         *)
(* JavaScript object: its own members and the members it inherits from     *)
(* its prototype chain.  A member is a number or a caller-supplied         *)
(* function, described by what it does when called.                        *)
(***************************************************************************)
Undefined == [kind |-> "undefined", value |-> 0, id |-> ""]

\* a numeric member (a constant identifier)
NumberMember(value) == [kind |-> "number", value |-> value, id |-> ""]

\* a function that returns value whatever its arguments
Returns(value) == [kind |-> "returns", value |-> value, id |-> ""]

\* a function that returns the sum of its numeric arguments
Sums == [kind |-> "sum", value |-> 0, id |-> ""]

\* a function that throws the Error object id
ThrowsError(id) == [kind |-> "throwsError", value |-> 0, id |-> id]

\* a function that throws a value that is no Error
ThrowsValue(id) == [kind |-> "throwsValue", value |-> 0, id |-> id]

\* arguments passed to the environment: a string or a number
Str(s) == [str |-> s]
Num(n) == [num |-> n]
UndefinedArgument == [undefined |-> TRUE]

\* object[name] passed as an argument: undefined when the object has no such
\* property
Property(object, name) ==
    IF name \in DOMAIN object THEN Str(object[name]) ELSE UndefinedArgument

RECURSIVE SumOfArgs(_)
SumOfArgs(args) ==
    IF args = <<>> THEN 0
    ELSE (IF "num" \in DOMAIN Head(args) THEN Head(args).num ELSE 0)
         + SumOfArgs(Tail(args))

\* member(...args): what the caller-supplied function does
Apply(member, args) ==
    CASE member.kind = "returns" ->
           [kind |-> "return", value |-> member.value, thrown |-> NoError]
      [] member.kind = "sum" ->
           [kind |-> "return", value |-> SumOfArgs(args), thrown |-> NoError]
      [] member.kind = "throwsError" ->
           [kind |-> "throw", value |-> 0,
            thrown |-> [class |-> "Error", id |-> member.id,
                        message |-> <<"boom">>]]
      [] member.kind = "throwsValue" ->
           [kind |-> "throw", value |-> 0,
            thrown |-> [class |-> "string", id |-> member.id,
                        message |-> <<>>]]

\* one call made to a member of the environment
Call(table, name, args, result) ==
    [table |-> table, name |-> name, args |-> args, result |-> result]

\* the members every plain object inherits from Object.prototype
ObjectPrototype ==
    [n \in {"hasOwnProperty", "toString", "valueOf"} |-> Returns(0)]

\* {}
EmptyObject == [own |-> [n \in {} |-> Undefined], proto |-> ObjectPrototype]

\* const { <field> = {} } = environment
TableOf(env, field) ==
    IF field \in DOMAIN env THEN env[field] ELSE EmptyObject

\* A variant of OwnMember: table[name], which searches the prototype chain
\* (the code before the fix recorded in CHANGELOG.md, Unreleased).
AnyMember(table, name) ==
    IF name \in DOMAIN table.own THEN table.own[name]
    ELSE IF name \in DOMAIN table.proto THEN table.proto[name]
    ELSE Undefined

\* Object.prototype.hasOwnProperty.call(table, name) ? table[name] : undefined
OwnMember(table, name) ==
    IF name \in DOMAIN table.own THEN table.own[name] ELSE Undefined

\* A variant of Annotated that throws a new InterpreterError made from the
\* message of the error it caught.
AnnotatedWrapped(e, suffix) == D2FInterpreterError(e.message \o suffix)

\* catch (e) { if (e instanceof Error) { e.message += suffix; } throw e; }
Annotated(e, suffix) ==
    IF instanceofError(e) THEN [e EXCEPT !.message = @ \o suffix] ELSE e

(***************************************************************************)
(* The evaluator (src/src/interpreter.js).  An AST node is a record whose  *)
(* field type names its kind; the other fields are those the evaluator     *)
(* reads.  The reference of an AstRefFunctionCall is Str(s) for a string   *)
(* and a node otherwise; a code2 that is null is a missing field.          *)
(***************************************************************************)
RECURSIVE interpretExpression(_, _)
RECURSIVE interpretBinaryOp(_, _)
RECURSIVE interpretFunctionCall(_, _)
RECURSIVE interpretRefFunctionCall(_, _)

\* function assertUnhandledExpressionType
assertUnhandledExpressionType(e) ==
    Throw(D2CalcInternalError(<<"Unknown expression type: ", e.type>>), <<>>)

BinaryOperators == {"+", "-", "*", "/", "==", "!=", "<", ">", "<=", ">="}

\* the switch of interpretBinaryOp, for the operators it handles
binaryOperation(operator, leftValue, rightValue) ==
    CASE operator = "+" -> toInt32(leftValue + rightValue)
      [] operator = "-" -> toInt32(leftValue - rightValue)
      [] operator = "*" -> Math_imul(leftValue, rightValue)
      [] operator = "/" ->
           IF rightValue = 0 THEN 0 ELSE Math_trunc_div(leftValue, rightValue)
      [] operator = "==" -> IF leftValue = rightValue THEN 1 ELSE 0
      [] operator = "!=" -> IF leftValue # rightValue THEN 1 ELSE 0
      [] operator = "<" -> IF leftValue < rightValue THEN 1 ELSE 0
      [] operator = ">" -> IF leftValue > rightValue THEN 1 ELSE 0
      [] operator = "<=" -> IF leftValue <= rightValue THEN 1 ELSE 0
      [] operator = ">=" -> IF leftValue >= rightValue THEN 1 ELSE 0

\* function interpretBinaryOp
interpretBinaryOp(expression, environment_) ==
    LET left == interpretExpression(expression.left, environment_) IN
    IF left.kind = "throw" THEN left
    ELSE
    LET right == interpretExpression(expression.right, environment_)
        calls == left.calls \o right.calls
    IN
    IF right.kind = "throw" THEN Throw(right.error, calls)
    ELSE IF expression.operator \in BinaryOperators
    THEN Return(binaryOperation(expression.operator, left.value, right.value),
                calls)
    ELSE Throw(D2CalcInternalError(<<"Unknown operator: ", expression.operator>>),
               calls)

\* A variant of interpretConditional that evaluates both branches before it
\* selects one.
interpretConditionalEager(expression, environment_) ==
    LET condition == interpretExpression(expression.condition, environment_) IN
    IF condition.kind = "throw" THEN condition
    ELSE
    LET t == interpretExpression(expression.trueExpression, environment_)
        f == interpretExpression(expression.falseExpression, environment_)
    IN
    IF t.kind = "throw" THEN Throw(t.error, condition.calls \o t.calls)
    ELSE IF f.kind = "throw"
    THEN Throw(f.error, condition.calls \o t.calls \o f.calls)
    ELSE Return(IF condition.value # 0 THEN t.value ELSE f.value,
                condition.calls \o t.calls \o f.calls)

\* interpretExpression, case "AstConditional"
interpretConditional(expression, environment_) ==
    LET condition == interpretExpression(expression.condition, environment_) IN
    IF condition.kind = "throw" THEN condition
    ELSE
    LET branch ==
          IF condition.value # 0
          THEN interpretExpression(expression.trueExpression, environment_)
          ELSE interpretExpression(expression.falseExpression, environment_)
    IN [branch EXCEPT !.calls = condition.calls \o @]

\* A variant of interpretUnaryOp without coercion of the result.
interpretUnaryOpUncoerced(expression, environment_) ==
    LET operand == interpretExpression(expression.expression, environment_) IN
    IF operand.kind = "throw" THEN operand
    ELSE Return(-operand.value, operand.calls)

\* interpretExpression, case "AstUnaryOp"
interpretUnaryOp(expression, environment_) ==
    IF expression.operator = "-"
    THEN LET operand ==
               interpretExpression(expression.expression, environment_)
         IN IF operand.kind = "throw" THEN operand
            ELSE Return(toInt32(-operand.value), operand.calls)
    ELSE Throw(D2CalcInternalError(<<"Unknown operator: ", expression.operator>>),
               <<>>)

\* function interpretIdentifier
interpretIdentifier(expression, environment_) ==
    LET identifiers == TableOf(environment_, "identifiers")
        identifier == OwnMember(identifiers, expression.name)
    IN
    IF identifier = Undefined
    THEN Throw(D2FInterpreterError(<<"Unknown identifier: ", expression.name>>),
               <<>>)
    ELSE IF identifier.kind = "number"
    THEN Return(toInt32(identifier.value), <<>>)
    ELSE
    LET result == Apply(identifier, <<>>)
        calls == <<Call("identifiers", expression.name, <<>>, result)>>
    IN
    IF result.kind = "throw"
    THEN Throw(Annotated(result.thrown,
                         <<" (caused while evaluating identifier \"",
                           expression.name, ")\"">>),
               calls)
    ELSE Return(toInt32(result.value), calls)

\* A variant of interpretFunctionCall that evaluates the second argument
\* before the first.
interpretFunctionCallRightToLeft(expression, environment_) ==
    LET functionName == expression.functionName
        functions == TableOf(environment_, "functions")
        func == OwnMember(functions, functionName)
    IN
    IF func = Undefined
    THEN Throw(D2FInterpreterError(<<"Unknown function: ", functionName>>), <<>>)
    ELSE
    LET arg2 == interpretExpression(expression.arg2, environment_) IN
    IF arg2.kind = "throw" THEN arg2
    ELSE
    LET arg1 == interpretExpression(expression.arg1, environment_) IN
    IF arg1.kind = "throw" THEN Throw(arg1.error, arg2.calls \o arg1.calls)
    ELSE
    LET args == <<Num(arg1.value), Num(arg2.value)>>
        result == Apply(func, args)
        calls == arg2.calls \o arg1.calls
                 \o <<Call("functions", functionName, args, result)>>
    IN
    IF result.kind = "throw"
    THEN Throw(Annotated(result.thrown,
                         <<" (caused while calling function \"",
                           functionName, ")\"">>),
               calls)
    ELSE Return(toInt32(result.value), calls)

\* function interpretFunctionCall
interpretFunctionCall(expression, environment_) ==
    LET functionName == expression.functionName
        functions == TableOf(environment_, "functions")
        func == OwnMember(functions, functionName)
    IN
    IF func = Undefined
    THEN Throw(D2FInterpreterError(<<"Unknown function: ", functionName>>), <<>>)
    ELSE
    LET arg1 == interpretExpression(expression.arg1, environment_) IN
    IF arg1.kind = "throw" THEN arg1
    ELSE
    LET arg2 == interpretExpression(expression.arg2, environment_) IN
    IF arg2.kind = "throw" THEN Throw(arg2.error, arg1.calls \o arg2.calls)
    ELSE
    LET args == <<Num(arg1.value), Num(arg2.value)>>
        result == Apply(func, args)
        calls == arg1.calls \o arg2.calls
                 \o <<Call("functions", functionName, args, result)>>
    IN
    IF result.kind = "throw"
    THEN Throw(Annotated(result.thrown,
                         <<" (caused while calling function \"",
                           functionName, ")\"">>),
               calls)
    ELSE Return(toInt32(result.value), calls)

\* A variant of interpretRefFunctionCall that always looks the function up in
\* referenceFunctions and passes it the first qualifier only.
interpretRefFunctionCallSingleOnly(expression, environment_) ==
    LET functionName == expression.functionName
        func == OwnMember(TableOf(environment_, "referenceFunctions"),
                          functionName)
    IN
    IF func = Undefined
    THEN Throw(D2FInterpreterError(
                 <<"Unknown single-qualifier reference function: ",
                   functionName>>), <<>>)
    ELSE
    LET ref == IF "str" \in DOMAIN expression.reference
               THEN Return(0, <<>>)
               ELSE interpretExpression(expression.reference, environment_)
    IN
    IF ref.kind = "throw" THEN ref
    ELSE
    LET args == <<IF "str" \in DOMAIN expression.reference
                  THEN expression.reference ELSE Num(ref.value),
                  Property(expression, "code1")>>
        result == Apply(func, args)
        calls == ref.calls
                 \o <<Call("referenceFunctions", functionName, args, result)>>
    IN
    IF result.kind = "throw" THEN Throw(result.thrown, calls)
    ELSE Return(toInt32(result.value), calls)

\* function interpretRefFunctionCall
interpretRefFunctionCall(expression, environment_) ==
    LET functionName == expression.functionName
        reference == expression.reference
        code1 == Property(expression, "code1")
    IN
    IF "code2" \notin DOMAIN expression
    THEN
        LET referenceFunctions == TableOf(environment_, "referenceFunctions")
            func == OwnMember(referenceFunctions, functionName)
        IN
        IF func = Undefined
        THEN Throw(D2FInterpreterError(
                     <<"Unknown single-qualifier reference function: ",
                       functionName>>), <<>>)
        ELSE
        LET ref == IF "str" \in DOMAIN reference
                   THEN Return(0, <<>>)
                   ELSE interpretExpression(reference, environment_)
        IN
        IF ref.kind = "throw" THEN ref
        ELSE
        LET refValue == IF "str" \in DOMAIN reference
                        THEN reference ELSE Num(ref.value)
            args == <<refValue, code1>>
            result == Apply(func, args)
            calls == ref.calls
                     \o <<Call("referenceFunctions", functionName, args,
                               result)>>
        IN
        IF result.kind = "throw"
        THEN Throw(Annotated(result.thrown,
                     <<" (caused while evaluating single-qualifier reference function \"",
                       functionName, ")\"">>),
                   calls)
        ELSE Return(toInt32(result.value), calls)
    ELSE
        LET code2 == Property(expression, "code2")
            referenceFunctions2Q ==
                TableOf(environment_, "referenceFunctions2Q")
            func == OwnMember(referenceFunctions2Q, functionName)
        IN
        IF func = Undefined
        THEN Throw(D2FInterpreterError(
                     <<"Unknown double-qualifier reference function: ",
                       functionName>>), <<>>)
        ELSE
        LET ref == IF "str" \in DOMAIN reference
                   THEN Return(0, <<>>)
                   ELSE interpretExpression(reference, environment_)
        IN
        IF ref.kind = "throw" THEN ref
        ELSE
        LET refValue == IF "str" \in DOMAIN reference
                        THEN reference ELSE Num(ref.value)
            args == <<refValue, code1, code2>>
            result == Apply(func, args)
            calls == ref.calls
                     \o <<Call("referenceFunctions2Q", functionName, args,
                               result)>>
        IN
        IF result.kind = "throw"
        THEN Throw(Annotated(result.thrown,
                     <<" (caused while evaluating double-qualifier reference function \"",
                       functionName, ")\"">>),
                   calls)
        ELSE Return(toInt32(result.value), calls)

\* function interpretExpression
interpretExpression(expression, environment_) ==
    CASE expression.type = "AstBinaryOp" ->
           interpretBinaryOp(expression, environment_)
      [] expression.type = "AstConditional" ->
           interpretConditional(expression, environment_)
      [] expression.type = "AstFunctionCall" ->
           interpretFunctionCall(expression, environment_)
      [] expression.type = "AstIdentifier" ->
           interpretIdentifier(expression, environment_)
      [] expression.type = "AstNumber" -> Return(expression.value, <<>>)
      [] expression.type = "AstRefFunctionCall" ->
           interpretRefFunctionCall(expression, environment_)
      [] expression.type = "AstUnaryOp" ->
           interpretUnaryOp(expression, environment_)
      [] OTHER -> assertUnhandledExpressionType(expression)

(***************************************************************************)
(* AST nodes, as the parser builds them and the evaluator reads them       *)
(***************************************************************************)
AstNumber(value) == [type |-> "AstNumber", value |-> value]

AstIdentifier(name) == [type |-> "AstIdentifier", name |-> name]

AstBinaryOp(operator, left, right) ==
    [type |-> "AstBinaryOp", operator |-> operator, left |-> left,
     right |-> right]

AstUnaryOp(operator, expression) ==
    [type |-> "AstUnaryOp", operator |-> operator, expression |-> expression]

AstConditional(condition, trueExpression, falseExpression) ==
    [type |-> "AstConditional", condition |-> condition,
     trueExpression |-> trueExpression, falseExpression |-> falseExpression]

AstFunctionCall(functionName, arg1, arg2) ==
    [type |-> "AstFunctionCall", functionName |-> functionName,
     arg1 |-> arg1, arg2 |-> arg2]

\* new AstRefFunctionCall(functionName, reference, code1, null)
AstRefFunctionCall1(functionName, reference, code1) ==
    [type |-> "AstRefFunctionCall", functionName |-> functionName,
     reference |-> reference, code1 |-> code1]

\* new AstRefFunctionCall(functionName, reference, code1, code2)
AstRefFunctionCall2(functionName, reference, code1, code2) ==
    [type |-> "AstRefFunctionCall", functionName |-> functionName,
     reference |-> reference, code1 |-> code1, code2 |-> code2]

(***************************************************************************)
(* The lexer (src/src/lexer.js).  A text is a sequence of characters, each *)
(* a string of length one; positions count from 0 as in the code.          *)
(***************************************************************************)
Digits == <<"0", "1", "2", "3", "4", "5", "6", "7", "8", "9">>

DigitChars == {Digits[i] : i \in DOMAIN Digits}

LetterChars ==
    {"a", "b", "c", "d", "e", "f", "g", "h", "i", "j", "k", "l", "m", "n",
     "o", "p", "q", "r", "s", "t", "u", "v", "w", "x", "y", "z",
     "A", "B", "C", "D", "E", "F", "G", "H", "I", "J", "K", "L", "M", "N",
     "O", "P", "Q", "R", "S", "T", "U", "V", "W", "X", "Y", "Z"}

\* \w
WordChars == LetterChars \cup DigitChars \cup {"_"}

\* \s
WhitespaceChars == {" ", "\t", "\n"}

\* the string made of the characters
RECURSIVE Join(_)
Join(chars) == IF chars = <<>> THEN "" ELSE Head(chars) \o Join(Tail(chars))

\* the decimal digits of a natural number n
RECURSIVE NumberToChars(_)
NumberToChars(n) ==
    IF n < 10 THEN <<Digits[n + 1]>>
    ELSE Append(NumberToChars(n \div 10), Digits[(n % 10) + 1])

\* String(n) for a natural number n
NumberToString(n) == Join(NumberToChars(n))

\* text.charAt(index)
charAt(text, index) == IF index < Len(text) THEN text[index + 1] ELSE ""

\* text.slice(from, to)
slice(text, from, to) ==
    SubSeq(text, from + 1, IF to < Len(text) THEN to ELSE Len(text))

\* text.indexOf(ch, from), -1 when there is none
RECURSIVE indexOf(_, _, _)
indexOf(text, ch, from) ==
    IF from >= Len(text) THEN -1
    ELSE IF text[from + 1] = ch THEN from
    ELSE indexOf(text, ch, from + 1)

\* the end of the longest run of characters of the class that starts at
\* index (a sticky pattern of the form /c+/y or /c*/y)
RECURSIVE RunEnd(_, _, _)
RunEnd(text, index, class) ==
    IF index < Len(text) /\ text[index + 1] \in class
    THEN RunEnd(text, index + 1, class)
    ELSE index

\* the value of a digit
DigitValue(ch) == CHOOSE d \in 0 .. 9 : Digits[d + 1] = ch

\* parseInt(digits): the decimal value of a string of digits
RECURSIVE parseInt(_)
parseInt(digits) ==
    IF digits = <<>> THEN 0
    ELSE 10 * parseInt(SubSeq(digits, 1, Len(digits) - 1))
         + DigitValue(digits[Len(digits)])

\* new Error(message), thrown by the lexer and the parser
Error(message) == [class |-> "Error", id |-> "d2calc", message |-> message]

\* what a match function does: there is no match (null), there is a match of
\* the characters given, or an error is thrown
NoMatch == [kind |-> "null", matched |-> <<>>, error |-> NoError]
Match(matched) == [kind |-> "match", matched |-> matched, error |-> NoError]
MatchThrows(error) == [kind |-> "throw", matched |-> <<>>, error |-> error]

\* matchRegexAt(text, index, /<=?|>=?|==|!=/y)
matchComparisonOperator(text, index) ==
    LET ch == charAt(text, index)
        next == charAt(text, index + 1)
    IN IF ch \in {"<", ">"}
       THEN Match(IF next = "=" THEN <<ch, next>> ELSE <<ch>>)
       ELSE IF ch \in {"=", "!"} /\ next = "="
       THEN Match(<<ch, next>>)
       ELSE NoMatch

\* matchRegexAt(text, index, /\d+/y)
matchDigits(text, index) ==
    LET end == RunEnd(text, index, DigitChars)
    IN IF end > index THEN Match(slice(text, index, end)) ELSE NoMatch

\* function matchIdentifier: /[a-z]\w*/iy
matchIdentifier(text, index) ==
    IF charAt(text, index) \in LetterChars
    THEN Match(slice(text, index, RunEnd(text, index + 1, WordChars)))
    ELSE NoMatch

\* function matchReference
matchReference(text, index) ==
    IF charAt(text, index) # "'" THEN NoMatch
    ELSE LET endIndex == indexOf(text, "'", index + 1)
         IN IF endIndex = -1
            THEN MatchThrows(Error(
                   <<"No closing single-quote (') character for reference at index ",
                     NumberToString(index)>>))
            ELSE Match(slice(text, index, endIndex + 1))

\* function matchDotCode
matchDotCode(text, index) ==
    IF charAt(text, index) # "." THEN NoMatch
    ELSE LET code == matchIdentifier(text, index + 1)
         IN IF code.kind = "null"
            THEN MatchThrows(Error(
                   <<"Dot (.) is not followed by a valid identifier at index ",
                     NumberToString(index)>>))
            ELSE code

\* Tokens: class names the class of the token; the fields number, reference,
\* operator and code are those of its class.
Token(class, position, rawValue) ==
    [class |-> class, position |-> position, rawValue |-> rawValue]

NumberToken(position, rawValue, number) ==
    [class |-> "NumberToken", position |-> position, rawValue |-> rawValue,
     number |-> number]

ReferenceToken(position, rawValue, reference) ==
    [class |-> "ReferenceToken", position |-> position, rawValue |-> rawValue,
     reference |-> reference]

OperatorToken(class, position, operator) ==
    [class |-> class, position |-> position, rawValue |-> operator,
     operator |-> operator]

DotCodeToken(position, rawValue, code) ==
    [class |-> "DotCodeToken", position |-> position, rawValue |-> rawValue,
     code |-> code]

\* what matchTokenAt does: returns a token, returns null, or throws
NoToken == [kind |-> "null"]
Matched(token) == [kind |-> "token", token |-> token]
TokenThrows(error) == [kind |-> "throw", error |-> error]

\* function matchTokenAt
matchTokenAt(text, index) ==
    LET currentCh == charAt(text, index)
        comparison == matchComparisonOperator(text, index)
        digits == matchDigits(text, index)
        identifier == matchIdentifier(text, index)
        reference == matchReference(text, index)
        dotCode == matchDotCode(text, index)
    IN
    CASE currentCh = "(" -> Matched(Token("OpeningParenthesisToken", index, "("))
      [] currentCh = ")" -> Matched(Token("ClosingParenthesisToken", index, ")"))
      [] currentCh = "?" -> Matched(Token("QuestionMarkToken", index, "?"))
      [] currentCh = ":" -> Matched(Token("ColonToken", index, ":"))
      [] currentCh = "," -> Matched(Token("CommaToken", index, ","))
      [] currentCh \in {"+", "-"} ->
           Matched(OperatorToken("AdditiveOperatorToken", index, currentCh))
      [] currentCh \in {"*", "/"} ->
           Matched(OperatorToken("MultiplicativeOperatorToken", index,
                                 currentCh))
      [] OTHER ->
           IF comparison.kind = "match"
           THEN Matched(OperatorToken("ComparisonOperatorToken", index,
                                      Join(comparison.matched)))
           ELSE IF digits.kind = "match"
           THEN Matched(NumberToken(index, Join(digits.matched),
                                    parseInt(digits.matched)))
           ELSE IF identifier.kind = "match"
           THEN Matched(Token("IdentifierToken", index,
                              Join(identifier.matched)))
           ELSE IF reference.kind = "throw" THEN TokenThrows(reference.error)
           ELSE IF reference.kind = "match"
           THEN Matched(ReferenceToken(index, Join(reference.matched),
                          Join(slice(reference.matched, 1,
                                     Len(reference.matched) - 1))))
           ELSE IF dotCode.kind = "throw" THEN TokenThrows(dotCode.error)
           ELSE IF dotCode.kind = "match"
           THEN Matched(DotCodeToken(index, "." \o Join(dotCode.matched),
                                     Join(dotCode.matched)))
           ELSE NoToken

\* what tokenize and parse do: return a value or throw an error
Returned(value) == [kind |-> "return", value |-> value]
Thrown(error) == [kind |-> "throw", error |-> error]

\* the loop of tokenize, from the position currentPos with the tokens found
\* so far
RECURSIVE tokenizeFrom(_, _, _)
tokenizeFrom(text, currentPos, tokens) ==
    IF currentPos >= Len(text) THEN Returned(tokens)
    ELSE
    LET token == matchTokenAt(text, currentPos)
        whitespaceEnd == RunEnd(text, currentPos, WhitespaceChars)
        endPos == currentPos + 10
        textShown ==
            Join(slice(text, currentPos, endPos))
            \o (IF endPos < Len(text) THEN "..." ELSE "")
    IN
    IF token.kind = "throw" THEN Thrown(token.error)
    ELSE IF token.kind = "token"
    THEN tokenizeFrom(text, currentPos + Len(token.token.rawValue),
                      Append(tokens, token.token))
    ELSE IF whitespaceEnd > currentPos
    THEN tokenizeFrom(text, whitespaceEnd, tokens)
    ELSE Thrown(Error(<<"Cannot parse token at index ",
                        NumberToString(currentPos), " of input: \"",
                        textShown, "\"">>))

\* function tokenize
tokenize(text) == tokenizeFrom(text, 0, <<>>)

(***************************************************************************)
(* parseInt32 (src/src/int32.js): the digits are read in chunks, each      *)
(* small enough to be converted exactly, and the value carried from one    *)
(* chunk to the next is reduced to the word by Math.imul.                  *)
(***************************************************************************)
\* num.substring(from, to)
substring(num, from, to) == slice(num, from, to)

\* Number(digits) for a string of digits that is converted exactly; the
\* empty string converts to 0
Number(digits) == parseInt(digits)

\* A variant of parseInt32Chunks: the value carried is not multiplied.
RECURSIVE parseInt32ChunksUnweighted(_, _, _)
parseInt32ChunksUnweighted(num, end, value) ==
    IF end <= Len(num)
    THEN parseInt32ChunksUnweighted(num, end + ChunkDigits,
             value + Number(substring(num, end - ChunkDigits, end)))
    ELSE value

\* the loop of parseInt32: end is the value of `end += 15`, value is the
\* value carried so far
RECURSIVE parseInt32Chunks(_, _, _)
parseInt32Chunks(num, end, value) ==
    IF end <= Len(num)
    THEN parseInt32Chunks(num, end + ChunkDigits,
             Math_imul(value, 10 ^ ChunkDigits)
             + Number(substring(num, end - ChunkDigits, end)))
    ELSE value

\* function parseInt32
parseInt32(num) ==
    LET end == IF Len(num) % ChunkDigits # 0 THEN Len(num) % ChunkDigits
               ELSE ChunkDigits
    IN toInt32(parseInt32Chunks(num, end + ChunkDigits,
                                Number(substring(num, 0, end))))

(***************************************************************************)
(* The parser (src/unnamed/part_008).  The token stream is the array of    *)
(* tokens and the index of the next one (currentIndex_); a parse function  *)
(* returns the node it built and the index it has advanced to, or throws.  *)
(***************************************************************************)
\* new AstRefFunctionCall(functionName, reference, identifier1, identifier2),
\* the node as the parser builds it: reference is Str(s) for a string and a
\* node otherwise, identifier2 is Str(s) for a string and Null for null
AstRefFunctionCall(functionName, reference, identifier1, identifier2) ==
    [type |-> "AstRefFunctionCall", functionName |-> functionName,
     reference |-> reference, identifier1 |-> identifier1,
     identifier2 |-> identifier2]

AstParenthesizedExpression(expression) ==
    [type |-> "AstParenthesizedExpression", expression |-> expression]

\* A variant of instanceofAstPrimaryExpression: a parenthesized expression
\* is no primary expression.
instanceofAstIntegralExpression(expression) ==
    expression.type \in {"AstNumber", "AstIdentifier", "AstFunctionCall",
                         "AstRefFunctionCall"}

\* expression instanceof AstPrimaryExpression
instanceofAstPrimaryExpression(expression) ==
    expression.type \in {"AstNumber", "AstIdentifier", "AstFunctionCall",
                         "AstRefFunctionCall", "AstParenthesizedExpression"}

Null == [null |-> TRUE]

\* the value of tokens_[currentIndex_] past the end of the array
EndOfInput == [class |-> "undefined"]

\* TokenStream.peek
peek(tokens, index) ==
    IF index < Len(tokens) THEN tokens[index + 1] ELSE EndOfInput

\* TokenStream.next: the index after the call
next(tokens, index) == IF index < Len(tokens) THEN index + 1 ELSE index

\* token instanceof OperatorToken
instanceofOperatorToken(token) ==
    token.class \in {"AdditiveOperatorToken", "MultiplicativeOperatorToken",
                     "ComparisonOperatorToken"}

\* A variant of BINARY_OPERATOR_PRECEDENCE: one level for every operator.
BINARY_OPERATOR_PRECEDENCE_FLAT == [operator \in BinaryOperators |-> 0]

BINARY_OPERATOR_PRECEDENCE ==
    [operator \in BinaryOperators |->
        CASE operator \in {"*", "/"} -> 2
          [] operator \in {"+", "-"} -> 1
          [] OTHER -> 0]

Parsed(expression, index) ==
    [kind |-> "return", expression |-> expression, index |-> index]

Passed == [kind |-> "return"]

\* reading a property of undefined
TypeError(message) ==
    [class |-> "TypeError", id |-> "d2calc", message |-> message]

\* new Error(`Unexpected token "${token.rawValue}" at position ${token.position}`)
UnexpectedToken(token) ==
    IF token.class = "undefined"
    THEN TypeError(<<"Cannot read properties of undefined">>)
    ELSE Error(<<"Unexpected token \"", token.rawValue, "\" at position ",
                 NumberToString(token.position)>>)

\* function assertIsNotEndOfInput
assertIsNotEndOfInput(token, extraMessage) ==
    IF token.class = "undefined"
    THEN Thrown(Error(<<"Unexpected end of input">> \o extraMessage))
    ELSE Passed

\* function assertTokenIsInstanceOf
assertTokenIsInstanceOf(token, tokenConstructor, extraMessage) ==
    IF token.class = "undefined"
    THEN assertIsNotEndOfInput(token, extraMessage)
    ELSE IF token.class # tokenConstructor
    THEN Thrown(UnexpectedToken(token))
    ELSE Passed

\* the text "<what> "<funcName>" at position <funcPos>" of an error message
ForFunction(what, identifier) ==
    <<what, " \"", identifier.rawValue, "\" at position ",
      NumberToString(identifier.position)>>

RECURSIVE parseExpression(_, _, _)
RECURSIVE parseBinaryOperators(_, _, _, _)
RECURSIVE parseUnaryExpression(_, _)
RECURSIVE parseConditionalExpression(_, _)
RECURSIVE parseConditionalOperators(_, _, _)
RECURSIVE parsePrimaryExpression(_, _)
RECURSIVE parseFunctionCallArgumentList(_, _, _)

\* function finishParsingReferenceCall
finishParsingReferenceCall(tokens, index, identifier, ref, dotCode1) ==
    LET funcName == identifier.rawValue
        dotCodeToken2 == peek(tokens, index)
        afterDotCode2 == next(tokens, index)
        message == ForFunction(
            "; expected a closing parenthesis (\")\") or second dot code for reference function",
            identifier)
        notEnd == assertIsNotEndOfInput(dotCodeToken2, message)
        isDotCode == assertTokenIsInstanceOf(dotCodeToken2, "DotCodeToken",
                                             message)
        endToken == peek(tokens, afterDotCode2)
        isClosing == assertTokenIsInstanceOf(endToken,
            "ClosingParenthesisToken",
            ForFunction(
              "; expected a closing parenthesis (\")\") for reference function",
              identifier))
    IN
    IF notEnd.kind = "throw" THEN notEnd
    ELSE IF dotCodeToken2.class = "ClosingParenthesisToken"
    THEN Parsed(AstRefFunctionCall(funcName, ref, dotCode1, Null),
                afterDotCode2)
    ELSE IF isDotCode.kind = "throw" THEN isDotCode
    ELSE IF isClosing.kind = "throw" THEN isClosing
    ELSE Parsed(AstRefFunctionCall(funcName, ref, dotCode1,
                                   Str(dotCodeToken2.code)),
                next(tokens, afterDotCode2))

\* function parseFunctionCallArgumentList
parseFunctionCallArgumentList(tokens, index, identifierToken) ==
    LET argListBeginToken == peek(tokens, index)
        funcName == identifierToken.rawValue
        afterParenthesis == next(tokens, index)
        firstArgToken == peek(tokens, afterParenthesis)
        notEnd == assertIsNotEndOfInput(firstArgToken,
            ForFunction("; expected first argument for function",
                        identifierToken))
        \* the rest of the function once argExpression2 is parsed
        withArgExpression2(argExpression1, argExpression2) ==
            IF argExpression2.kind = "throw" THEN argExpression2
            ELSE
            LET endToken == peek(tokens, argExpression2.index)
                isClosing == assertTokenIsInstanceOf(endToken,
                    "ClosingParenthesisToken",
                    ForFunction(
                      "; expected a closing parenthesis for function",
                      identifierToken))
            IN IF isClosing.kind = "throw" THEN isClosing
               ELSE Parsed(AstFunctionCall(funcName,
                                           argExpression1.expression,
                                           argExpression2.expression),
                           next(tokens, argExpression2.index))
        \* the rest of the function once argExpression1 is parsed
        withArgExpression1(argExpression1) ==
            IF argExpression1.kind = "throw" THEN argExpression1
            ELSE
            LET commaOrDotCodeToken == peek(tokens, argExpression1.index)
                afterComma == next(tokens, argExpression1.index)
                isDotCode == assertTokenIsInstanceOf(commaOrDotCodeToken,
                    "DotCodeToken",
                    ForFunction(
                      "; expected a comma (,) or dot-code (.code) for function",
                      identifierToken))
            IN
            IF commaOrDotCodeToken.class = "CommaToken"
            THEN withArgExpression2(argExpression1,
                                    parseExpression(tokens, afterComma, 0))
            ELSE IF isDotCode.kind = "throw" THEN isDotCode
            ELSE IF ~instanceofAstPrimaryExpression(argExpression1.expression)
            THEN Thrown(Error(
                   <<"Disallowed expression at position ",
                     NumberToString(firstArgToken.position),
                     "; the first argument of the reference function \"",
                     funcName,
                     "\" must be a number, identifier, or an expression wrapped in parentheses (\"()\")">>))
            ELSE finishParsingReferenceCall(tokens, afterComma,
                     identifierToken, argExpression1.expression,
                     commaOrDotCodeToken.code)
    IN
    IF argListBeginToken.class # "OpeningParenthesisToken"
    THEN Parsed(AstIdentifier(identifierToken.rawValue), index)
    ELSE IF notEnd.kind = "throw" THEN notEnd
    ELSE IF firstArgToken.class = "ReferenceToken"
    THEN
        LET afterReference == next(tokens, afterParenthesis)
            dotCodeToken1 == peek(tokens, afterReference)
            isDotCode == assertTokenIsInstanceOf(dotCodeToken1,
                "DotCodeToken",
                ForFunction(
                  "; expected first dot code for reference function",
                  identifierToken))
        IN IF isDotCode.kind = "throw" THEN isDotCode
           ELSE finishParsingReferenceCall(tokens,
                    next(tokens, afterReference), identifierToken,
                    Str(firstArgToken.reference), dotCodeToken1.code)
    ELSE withArgExpression1(parseExpression(tokens, afterParenthesis, 0))

\* function parsePrimaryExpression
parsePrimaryExpression(tokens, index) ==
    LET token == peek(tokens, index)
        afterToken == next(tokens, index)
        \* the rest of the function once innerExpression is parsed
        withInnerExpression(innerExpression) ==
            IF innerExpression.kind = "throw" THEN innerExpression
            ELSE
            LET endToken == peek(tokens, innerExpression.index)
                isClosing == assertTokenIsInstanceOf(endToken,
                    "ClosingParenthesisToken",
                    <<"; expected a \")\" that matches the \"(\" at position ",
                      NumberToString(token.position)>>)
            IN IF isClosing.kind = "throw" THEN isClosing
               ELSE Parsed(
                      AstParenthesizedExpression(innerExpression.expression),
                      next(tokens, innerExpression.index))
    IN
    IF token.class = "NumberToken"
    THEN Parsed(AstNumber(token.number), afterToken)
    ELSE IF token.class = "IdentifierToken"
    THEN parseFunctionCallArgumentList(tokens, afterToken, token)
    ELSE IF token.class = "OpeningParenthesisToken"
    THEN withInnerExpression(parseExpression(tokens, afterToken, 0))
    ELSE Thrown(UnexpectedToken(token))

\* the loop of parseConditionalExpression, with the expression parsed so far
parseConditionalOperators(tokens, conditionExpr, index) ==
    LET questionToken == peek(tokens, index)
        \* the rest of the iteration once falseExpr is parsed
        withFalseExpr(trueExpr, falseExpr) ==
            IF falseExpr.kind = "throw" THEN falseExpr
            ELSE parseConditionalOperators(tokens,
                     AstConditional(conditionExpr, trueExpr.expression,
                                    falseExpr.expression),
                     falseExpr.index)
        \* the rest of the iteration once trueExpr is parsed
        withTrueExpr(trueExpr) ==
            IF trueExpr.kind = "throw" THEN trueExpr
            ELSE
            LET colonToken == peek(tokens, trueExpr.index)
                isColon == assertTokenIsInstanceOf(colonToken, "ColonToken",
                    <<"; expected a colon (:) for conditional expression \"",
                      questionToken.rawValue, "\" at position ",
                      NumberToString(questionToken.position)>>)
            IN
            IF isColon.kind = "throw" THEN isColon
            ELSE withFalseExpr(trueExpr,
                     parsePrimaryExpression(tokens,
                                            next(tokens, trueExpr.index)))
    IN
    IF questionToken.class # "QuestionMarkToken"
    THEN Parsed(conditionExpr, index)
    ELSE withTrueExpr(parsePrimaryExpression(tokens, next(tokens, index)))

\* function parseConditionalExpression
parseConditionalExpression(tokens, index) ==
    LET withConditionExpr(conditionExpr) ==
            IF conditionExpr.kind = "throw" THEN conditionExpr
            ELSE parseConditionalOperators(tokens, conditionExpr.expression,
                                           conditionExpr.index)
    IN withConditionExpr(parsePrimaryExpression(tokens, index))

\* A variant of parseUnaryExpression: the minus sign applies to the primary
\* expression that follows it, and the conditional operators to the result.
parseUnaryExpressionOfPrimary(tokens, index) ==
    LET token == peek(tokens, index)
        withInnerExpression(innerExpression) ==
            IF innerExpression.kind = "throw" THEN innerExpression
            ELSE parseConditionalOperators(tokens,
                     AstUnaryOp(token.operator, innerExpression.expression),
                     innerExpression.index)
    IN
    IF instanceofOperatorToken(token) /\ token.operator = "-"
    THEN withInnerExpression(
             parsePrimaryExpression(tokens, next(tokens, index)))
    ELSE parseConditionalExpression(tokens, index)

\* function parseUnaryExpression
parseUnaryExpression(tokens, index) ==
    LET token == peek(tokens, index)
        withInnerExpression(innerExpression) ==
            IF innerExpression.kind = "throw" THEN innerExpression
            ELSE Parsed(AstUnaryOp(token.operator, innerExpression.expression),
                        innerExpression.index)
    IN
    IF instanceofOperatorToken(token) /\ token.operator = "-"
    THEN withInnerExpression(
             parseConditionalExpression(tokens, next(tokens, index)))
    ELSE parseConditionalExpression(tokens, index)

\* the loop of parseExpression, with the expression parsed so far
parseBinaryOperators(tokens, expression, index, minPrecedence) ==
    LET operatorToken == peek(tokens, index)
        operator == operatorToken.operator
        precedence == BINARY_OPERATOR_PRECEDENCE[operator]
        \* the rest of the iteration once rightExpression is parsed
        withRightExpression(rightExpression) ==
            IF rightExpression.kind = "throw" THEN rightExpression
            ELSE parseBinaryOperators(tokens,
                     AstBinaryOp(operator, expression,
                                 rightExpression.expression),
                     rightExpression.index, minPrecedence)
    IN
    IF ~instanceofOperatorToken(operatorToken) THEN Parsed(expression, index)
    ELSE IF precedence < minPrecedence THEN Parsed(expression, index)
    ELSE withRightExpression(
             parseExpression(tokens, next(tokens, index), precedence + 1))

\* function parseExpression
parseExpression(tokens, index, minPrecedence) ==
    LET withExpression(expression) ==
            IF expression.kind = "throw" THEN expression
            ELSE parseBinaryOperators(tokens, expression.expression,
                                      expression.index, minPrecedence)
    IN withExpression(parseUnaryExpression(tokens, index))

\* function parse
parse(text) ==
    LET \* the rest of the function once the expression is parsed
        withExpression(tokens, expression) ==
            IF expression.kind = "throw" THEN Thrown(expression.error)
            ELSE
            LET leftoverToken == peek(tokens, expression.index) IN
            IF leftoverToken.class # "undefined"
            THEN Thrown(UnexpectedToken(leftoverToken))
            ELSE Returned(expression.expression)
        \* the rest of the function once the text is tokenized
        withTokens(tokens) ==
            IF tokens.kind = "throw" THEN tokens
            ELSE withExpression(tokens.value,
                                parseExpression(tokens.value, 0, 0))
    IN withTokens(tokenize(text))

\* function interpret
interpret(text, environment_) ==
    LET withExpression(expression) ==
            IF expression.kind = "throw" THEN Throw(expression.error, <<>>)
            ELSE interpretExpression(expression.value, environment_)
    IN withExpression(parse(text))

(***************************************************************************)
(* Inputs of the evaluator                                                 *)
(***************************************************************************)
\* An int32 value written as an operand: a literal, or a negated literal.
Operand(v) == IF v >= 0 THEN AstNumber(v) ELSE AstUnaryOp("-", AstNumber(-v))

\* Values of number literals: a literal has no sign and may exceed INT32_MAX.
LiteralValues == 0 .. (UINT32_MAX + 1)

\* Expressions over numbers only.
ArithmeticAsts ==
    {AstBinaryOp(op, Operand(a), Operand(b)) :
        op \in BinaryOperators, a \in Int32, b \in Int32}
    \cup {AstNumber(n) : n \in LiteralValues}
    \cup {AstUnaryOp("-", AstNumber(n)) : n \in LiteralValues}
    \cup {AstBinaryOp(op, AstNumber(INT32_MAX + 1), Operand(b)) :
            op \in BinaryOperators, b \in {-1, 0, 1, 2}}

\* Names used in expressions: a name the caller may register, a member of
\* Object.prototype, and a method of the parent class of a table.
Names == {"f", "toString", "myfunc"}

References == {Str("r"), AstNumber(4), AstIdentifier("f")}

CallAsts ==
    {AstIdentifier(n) : n \in Names}
    \cup {AstFunctionCall(n, a, b) :
            n \in Names, a \in {AstNumber(1), AstIdentifier("f")},
            b \in {AstNumber(2), AstIdentifier("f")}}
    \cup {AstRefFunctionCall1(n, r, "q1") : n \in Names, r \in References}
    \cup {AstRefFunctionCall2(n, r, "q1", "q2") : n \in Names, r \in References}

Branches ==
    {AstNumber(2), AstIdentifier("f"),
     AstFunctionCall("f", AstNumber(1), AstNumber(2)),
     AstRefFunctionCall1("f", Str("r"), "q1"),
     AstRefFunctionCall2("f", Str("r"), "q1", "q2")}

ConditionalAsts ==
    {AstConditional(c, t, e) :
        c \in {AstNumber(0), AstNumber(1), AstNumber(INT32_MAX + 1),
               AstIdentifier("f")},
        t \in Branches, e \in Branches}

\* Values taken from the environment inside an enclosing expression.
NestedAsts ==
    {AstBinaryOp(op, x, AstNumber(1)) : op \in {"+", "/", "<"}, x \in Branches}
    \cup {AstUnaryOp("-", x) : x \in Branches}
    \cup {AstFunctionCall("f", x, AstNumber(1)) : x \in Branches}
    \cup {AstFunctionCall("f", AstNumber(1), x) : x \in Branches}
    \cup {AstRefFunctionCall1("f", x, "q1") : x \in Branches}

\* Function calls whose two arguments take values from the environment.
ArgumentAsts ==
    {AstFunctionCall("f", x, y) : x \in Branches, y \in Branches}

NameAsts == CallAsts \cup ConditionalAsts \cup NestedAsts \cup ArgumentAsts

(***************************************************************************)
(* Environments                                                            *)
(***************************************************************************)
Roles == {"identifiers", "functions", "referenceFunctions",
          "referenceFunctions2Q"}

\* Numbers a member of the environment may hold or return: in and out of
\* the int32 range.
RawValues == {0, 3, INT32_MAX, INT32_MAX + 1, UINT32_MAX + 1, INT32_MIN - 1}

\* What the member registered as f does.
Behaviours ==
    {NumberMember(v) : v \in RawValues} \cup {Returns(v) : v \in RawValues}
    \cup {Sums, ThrowsError("e1"), ThrowsValue("s1")}

\* A table is an instance of a class whose parent class has the method
\* myfunc; f is its own member when registered.
Table(registered, member) ==
    [own |-> IF registered THEN [n \in {"f"} |-> member]
             ELSE [n \in {} |-> Undefined],
     proto |-> [n \in {"hasOwnProperty", "toString", "valueOf", "myfunc"} |->
                  IF n = "myfunc" THEN Returns(3) ELSE Returns(0)]]

\* Only the identifiers table may hold a number; the other tables hold the
\* function that returns it.
MemberFor(role, member) ==
    IF role # "identifiers" /\ member.kind = "number"
    THEN Returns(member.value) ELSE member

\* The environment in which f is registered in the tables of the roles
\* given, the other tables being left out (omitted) or present without f.
Environment(registeredIn, omitted, member) ==
    LET present == IF omitted THEN registeredIn ELSE Roles
    IN [role \in present |->
          Table(role \in registeredIn, MemberFor(role, member))]

Environments ==
    {Environment(r, o, m) :
        r \in SUBSET Roles, o \in BOOLEAN, m \in Behaviours}

EmptyEnvironment == Environment({}, TRUE, Sums)

NotRun == [kind |-> "none", value |-> 0, error |-> NoError, calls |-> <<>>]

(***************************************************************************)
(* Texts given to interpret                                                *)
(***************************************************************************)
\* An int32 value as it is written: its digits, after a minus sign when it
\* is negative.
SignedChars(v) ==
    IF v < 0 THEN <<"-">> \o NumberToChars(-v) ELSE NumberToChars(v)

OperatorChars ==
    {<<"+">>, <<"-">>, <<"*">>, <<"/">>, <<"=", "=">>, <<"!", "=">>, <<"<">>,
     <<">">>, <<"<", "=">>, <<">", "=">>}

TextValues == {INT32_MIN, -1, 0, 2, INT32_MAX}

\* Texts over numbers only.
ArithmeticTexts ==
    {NumberToChars(n) : n \in LiteralValues}
    \cup {<<"-">> \o NumberToChars(n) : n \in LiteralValues}
    \cup {SignedChars(a) \o <<" ">> \o op \o <<" ">> \o SignedChars(b) :
            a \in TextValues, op \in OperatorChars, b \in TextValues}

\* What is written as the reference of a reference function call.
ReferenceChars ==
    {<<"'", "r", "'">>, <<"'", "'">>, <<"4">>, NumberToChars(INT32_MAX + 1),
     <<"f">>, <<"f", "(", "1", ",", "2", ")">>, <<"(", "1", "+", "2", ")">>}

\* f(r.q1) and f(r.q1.q2), and the same for the name g, which no table has
ReferenceCallTexts ==
    {n \o <<"(">> \o r \o <<".", "q", "1">> \o q2 \o <<")">> :
        n \in {<<"f">>, <<"g">>}, r \in ReferenceChars,
        q2 \in {<<>>, <<".", "q", "2">>}}

\* Other texts with names, and texts that are no expression.
OtherTexts ==
    {<<"f">>, <<"f", "(", "1", ",", " ", "f", ")">>,
     <<"f", " ", "?", " ", "1", " ", ":", " ", "g">>,
     <<"(", "f", ")">>, <<"-", "f", " ", "*", " ", "2">>,
     <<>>, <<"f", "(">>, <<"1", " ", "2">>, <<"#">>, <<"f", "(", "'", "r">>,
     <<"f", "(", "1", ".", ")">>, <<"x", "_", "1">>, <<"1", "+">>,
     <<"f", "(", "1", ",", "2", ")", " ", ")">>}

NameTexts == ReferenceCallTexts \cup OtherTexts

\* What is written as an operand: a number or a name.
OperandChars == {<<"2">>, <<"3">>, <<"f">>}

\* a op1 b op2 c
TwoOperatorTexts ==
    {a \o op1 \o b \o op2 \o c :
        a \in OperandChars, op1 \in OperatorChars, b \in OperandChars,
        op2 \in OperatorChars, c \in OperandChars}

\* Strings of n characters of the set given.
StringsOf(chars, n) == [1 .. n -> chars]

\* Strings of digits: every string of at most one digit more than a chunk,
\* and the strings of a few digits of up to three chunks.
DigitTexts ==
    UNION {StringsOf(DigitChars, n) : n \in 1 .. (ChunkDigits + 1)}
    \cup UNION {StringsOf({"0", "4", "9"}, n) : n \in 1 .. (3 * ChunkDigits)}

\* p1?p2:p3
ConditionalChars ==
    {p1 \o <<"?">> \o p2 \o <<":">> \o p3 :
        p1 \in OperandChars, p2 \in OperandChars, p3 \in OperandChars}

\* p1?p2:p3 op p4
ConditionalFirstTexts ==
    {k \o op \o p4 :
        k \in ConditionalChars, op \in OperatorChars, p4 \in OperandChars}

\* p0 op p1?p2:p3 and p0 op -p1?p2:p3
ConditionalLastTexts ==
    {p0 \o op \o minus \o k :
        p0 \in OperandChars, op \in OperatorChars, minus \in {<<>>, <<"-">>},
        k \in ConditionalChars}

\* p1?p2:p3?p4:p5
ConditionalChainTexts ==
    {k \o <<"?">> \o p4 \o <<":">> \o p5 :
        k \in ConditionalChars, p4 \in OperandChars, p5 \in OperandChars}

\* -p1?p2:p3
NegatedConditionalTexts == {<<"-">> \o k : k \in ConditionalChars}

\* 0?1:2*3+4
ConditionalExample == <<"0", "?", "1", ":", "2", "*", "3", "+", "4">>

ConditionalTexts ==
    ConditionalFirstTexts \cup ConditionalLastTexts
    \cup ConditionalChainTexts \cup NegatedConditionalTexts
    \cup {ConditionalExample}

\* Texts with a token after the top-level expression, and texts without
\* any token.
LeftoverTexts ==
    {<<"1", " ", "2">>, <<"f", " ", "f">>, <<"2", "3", ")">>,
     <<"(", "f", ")", ")">>, <<"2", ".", "q">>, <<"9", ",", "0">>,
     <<"7", " ", ":", " ", "8">>, <<"2", "'", "r", "'">>, <<"2", "(">>,
     <<"2", " ", "f">>, <<>>, <<" ">>, <<" ", "\t", "\n">>}

\* Texts with parentheses.
ParenthesizedTexts ==
    {<<"(", "4", ")">>, <<"(", "(", "4", ")", ")">>, <<"-", "(", "f", ")">>,
     <<"(", "2", "+", "3", ")">>, <<"(", "2", "?", "3", ":", "f", ")">>,
     <<"(", "2", " ", "+", " ", "3", ")", " ", "*", " ", "3">>,
     <<"(", "2", ")", "+", "(", "3", ")">>}

\* What is written before a dot-code as the first argument of a call: unary,
\* binary and conditional expressions,
NonPrimaryOperandChars ==
    {<<"-", "5">>, <<"-", "f">>, <<"2", "*", "3">>, <<"3", "-", "4">>,
     <<"5", ">", "6">>, <<"2", "=", "=", "3">>, <<"1", "?", "2", ":", "3">>}

\* numbers, identifiers and calls,
PrimaryOperandChars ==
    {<<"4">>, <<"f">>, <<"f", "(", "1", ",", "2", ")">>,
     <<"f", "(", "'", "r", "'", ".", "q", ")">>,
     <<"f", "(", "4", ".", "q", ".", "p", ")">>}

\* and expressions in parentheses.
ParenthesizedOperandChars ==
    {<<"(", "5", " ", "=", "=", " ", "3", ")">>,
     <<"(", "2", " ", "+", " ", "3", ")">>, <<"(", "4", ")">>,
     <<"(", "-", "5", ")">>, <<"(", "(", "f", ")", ")">>}

\* f(e.q) and f(e.q.p)
ReferenceCallOf(e, codes) == <<"f", "(">> \o e \o codes \o <<")">>

DotCodeChars == {<<".", "q">>, <<".", "q", ".", "p">>}

ReferenceOperandTexts ==
    {ReferenceCallOf(e, codes) :
        e \in NonPrimaryOperandChars \cup PrimaryOperandChars
              \cup ParenthesizedOperandChars,
        codes \in DotCodeChars}

\* Calls of the three shapes, with the node written in each.
CallCases ==
    {[text |-> <<"f", "(", "1", ",", "2", ")">>,
      node |-> AstFunctionCall("f", AstNumber(1), AstNumber(2))],
     [text |-> <<"f", "(", "2", "+", "3", ",", " ", "-", "f", ")">>,
      node |-> AstFunctionCall("f",
                 AstBinaryOp("+", AstNumber(2), AstNumber(3)),
                 AstUnaryOp("-", AstIdentifier("f")))],
     [text |-> <<"f", "(", "'", "r", "'", ".", "q", ")">>,
      node |-> AstRefFunctionCall("f", Str("r"), "q", Null)],
     [text |-> <<"f", "(", "'", "r", "'", ".", "q", ".", "p", ")">>,
      node |-> AstRefFunctionCall("f", Str("r"), "q", Str("p"))],
     [text |-> <<"f", "(", "4", ".", "q", ")">>,
      node |-> AstRefFunctionCall("f", AstNumber(4), "q", Null)],
     [text |-> <<"f", "(", "4", ".", "q", ".", "p", ")">>,
      node |-> AstRefFunctionCall("f", AstNumber(4), "q", Str("p"))]}

\* Calls of no such shape: no argument, one, three, no dot-code, three
\* dot-codes, a quoted reference as second argument, no closing parenthesis.
MalformedCallTexts ==
    {<<"f", "(", ")">>, <<"f", "(", "1", ")">>,
     <<"f", "(", "1", ",", "2", ",", "3", ")">>,
     <<"f", "(", "'", "r", "'", ")">>,
     <<"f", "(", "'", "r", "'", ".", "a", ".", "b", ".", "c", ")">>,
     <<"f", "(", "4", ".", "a", ".", "b", ".", "c", ")">>,
     <<"f", "(", "1", ",", "'", "r", "'", ")">>,
     <<"f", "(", "1", ",", "2">>, <<"f", "(", "1", ",">>, <<"f", "(", "1">>,
     <<"f", "(">>,
     <<"f", "(", "'", "r", "'", ".", "q">>,
     <<"f", "(", "'", "r", "'", ".", "q", ".", "p">>,
     <<"f", "(", "'", "r", "'">>,
     <<"f", "(", "4", ".", "q">>,
     <<"f", "(", "'", "r", "'", "1", "2", ")">>,
     <<"f", "(", "'", "r", "'", ".", "q", ",", "2", ")">>}

CallTexts == {k.text : k \in CallCases} \cup MalformedCallTexts

\* Texts with an underscore, outside and inside a quoted reference.
UnderscoreTexts ==
    {<<"_">>, <<"a", "_", "b">>, <<"a", "_">>, <<"_", "a">>, <<"1", "_">>,
     <<"f", "(", "1", ".", "q", "_", "2", ")">>,
     <<"f", "(", "'", "a", "_", "b", "'", ".", "q", ")">>}

\* Texts with a letter right after a run of digits.
DigitLetterTexts ==
    {<<"1", "2", "3", "a">>, <<"0", "x", "1", "0", "0", "0">>, <<"2", "f">>,
     <<"1", "+", "2", "a">>, <<"9", "q", "1">>}

\* Texts with names made of letters and digits.
WordTexts ==
    {<<"a", "1">>, <<"a", "1", "b">>, <<"Z", "9", "z">>, <<"1", " ", "a">>,
     <<"f", "(", "1", ".", "q", "2", "b", ")">>}

\* Texts that exercise the grammar.
SyntaxTexts ==
    TwoOperatorTexts \cup ConditionalTexts \cup LeftoverTexts
    \cup ParenthesizedTexts \cup ReferenceOperandTexts \cup CallTexts
    \cup UnderscoreTexts \cup DigitLetterTexts \cup WordTexts

\* the input of a call that was not given a node
NoAst == [type |-> "none"]

(***************************************************************************)
(* isInt32 (src/src/int32.js).  It is given any value of the language: a   *)
(* value is a record whose field kind names what it is.                    *)
(***************************************************************************)
JSNumber(n) == [kind |-> "number", nan |-> FALSE, number |-> n]
NaN == [kind |-> "number", nan |-> TRUE, number |-> 0]
JSUndefined == [kind |-> "undefined"]
JSNull == [kind |-> "null"]
JSBoolean(b) == [kind |-> "boolean", boolean |-> b]
JSString(chars) == [kind |-> "string", chars |-> chars]
JSObject == [kind |-> "object"]
JSArray(elements) == [kind |-> "array", elements |-> elements]
JSFunction == [kind |-> "function"]
JSSymbol == [kind |-> "symbol"]
JSBigInt(n) == [kind |-> "bigint", number |-> n]

\* the number a string of decimal digits converts to; the empty string
\* converts to 0 and any other string to NaN
StringToNumber(chars) ==
    IF \A i \in DOMAIN chars : chars[i] \in DigitChars
    THEN JSNumber(parseInt(chars)) ELSE NaN

\* The conversion the operator | applies to its operand.  An object converts
\* through its string "[object Object]", a function through its source text,
\* an array through the string of its elements joined by commas; a symbol
\* and a BigInt make the operator throw a TypeError.
ToNumber(v) ==
    CASE v.kind = "number" -> Returned(v)
      [] v.kind = "undefined" -> Returned(NaN)
      [] v.kind = "null" -> Returned(JSNumber(0))
      [] v.kind = "boolean" -> Returned(JSNumber(IF v.boolean THEN 1 ELSE 0))
      [] v.kind = "string" -> Returned(StringToNumber(v.chars))
      [] v.kind = "object" -> Returned(NaN)
      [] v.kind = "function" -> Returned(NaN)
      [] v.kind = "array" ->
           Returned(IF Len(v.elements) = 0 THEN JSNumber(0)
                    ELSE IF Len(v.elements) = 1 THEN JSNumber(v.elements[1])
                    ELSE NaN)
      [] v.kind = "symbol" ->
           Thrown(TypeError(<<"Cannot convert a Symbol value to a number">>))
      [] v.kind = "bigint" ->
           Thrown(TypeError(<<"Cannot mix BigInt and other types">>))

\* toInt32(value) for any value: value | 0, where NaN gives 0
toInt32OfValue(v) ==
    LET withNumber(n) ==
            IF n.kind = "throw" THEN n
            ELSE Returned(IF n.value.nan THEN 0 ELSE toInt32(n.value.number))
    IN withNumber(ToNumber(v))

\* function isInt32: value === toInt32(value)
isInt32(v) ==
    LET withInt32(int32) ==
            IF int32.kind = "throw" THEN Throw(int32.error, <<>>)
            ELSE Return(/\ v.kind = "number"
                        /\ ~v.nan
                        /\ v.number = int32.value, <<>>)
    IN withInt32(toInt32OfValue(v))

\* Values given to isInt32: numbers in and out of the int32 range, NaN, and
\* values that are not numbers.
JSValues ==
    {JSNumber(n) : n \in (INT32_MIN - 2) .. (UINT32_MAX + 1)}
    \cup {NaN, JSUndefined, JSNull, JSBoolean(TRUE), JSBoolean(FALSE),
          JSString(<<"0">>), JSString(<<"1", "2">>), JSString(<<>>),
          JSString(<<"a">>), JSObject, JSArray(<<>>), JSArray(<<20>>),
          JSArray(<<1, 2>>), JSFunction, JSSymbol, JSBigInt(1)}

\* no value is given
NoValue == [kind |-> "none"]

(***************************************************************************)
(* The state machine: one call of one of the exported functions            *)
(* interpretExpression, interpret, tokenize, parse, parseInt32 and isInt32. *)
(***************************************************************************)
Init ==
    /\ pc = "start"
    /\ \/ /\ input \in ArithmeticAsts
          /\ formula = <<>>
          /\ environment = EmptyEnvironment
       \/ /\ input \in NameAsts
          /\ formula = <<>>
          /\ environment \in Environments
       \/ /\ input = NoAst
          /\ formula \in ArithmeticTexts
          /\ environment = EmptyEnvironment
       \/ /\ input = NoAst
          /\ formula \in NameTexts
          /\ environment \in Environments
       \/ /\ input = NoAst
          /\ formula \in DigitTexts \cup SyntaxTexts
          /\ environment = EmptyEnvironment
    /\ outcome = NotRun
    /\ astCache_ = EmptyObject
    /\ parses = <<>>
    /\ history = <<>>
    /\ IF input = NoAst /\ formula = <<>> THEN candidate \in JSValues \cup {NoValue}
       ELSE candidate = NoValue

\* interpretExpression(input, environment)
Evaluate ==
    /\ pc = "start"
    /\ input # NoAst
    /\ outcome' = interpretExpression(input, environment)
    /\ pc' = "done"
    /\ UNCHANGED <<input, formula, environment, cache, candidate>>

\* interpret(formula, environment)
Interpret ==
    /\ pc = "start"
    /\ input = NoAst
    /\ outcome' = interpret(formula, environment)
    /\ pc' = "done"
    /\ UNCHANGED <<input, formula, environment, cache, candidate>>

\* tokenize(formula)
Tokenize ==
    /\ pc = "start"
    /\ input = NoAst
    /\ outcome' = LET tokens == tokenize(formula)
                  IN IF tokens.kind = "throw" THEN Throw(tokens.error, <<>>)
                     ELSE Return(tokens.value, <<>>)
    /\ pc' = "tokenized"
    /\ UNCHANGED <<input, formula, environment, cache, candidate>>

\* parse(formula)
Parse ==
    /\ pc = "start"
    /\ input = NoAst
    /\ outcome' = LET expression == parse(formula)
                  IN IF expression.kind = "throw"
                     THEN Throw(expression.error, <<>>)
                     ELSE Return(expression.value, <<>>)
    /\ pc' = "parsed"
    /\ UNCHANGED <<input, formula, environment, cache, candidate>>

\* parseInt32(formula), for a non-empty string containing only digits
ParseInt32 ==
    /\ pc = "start"
    /\ input = NoAst
    /\ formula # <<>>
    /\ \A i \in 1 .. Len(formula) : formula[i] \in DigitChars
    /\ outcome' = Return(parseInt32(formula), <<>>)
    /\ pc' = "parsedInt32"
    /\ UNCHANGED <<input, formula, environment, cache, candidate>>

\* isInt32(candidate)
IsInt32 ==
    /\ pc = "start"
    /\ candidate # NoValue
    /\ outcome' = isInt32(candidate)
    /\ pc' = "checkedInt32"
    /\ UNCHANGED <<input, formula, environment, cache, candidate>>

Next == Evaluate \/ Interpret \/ Tokenize \/ Parse \/ ParseInt32 \/ IsInt32

Spec == Init /\ [][Next]_vars

(***************************************************************************)
(* The cached interpreter: class CachedInterpreter, documented in          *)
(* README.md and exercised by src/test/cached-interpreter.test.js.  Its    *)
(* field astCache_ is a plain object whose own keys are the texts parsed   *)
(* so far; as every plain object it inherits the members of                *)
(* Object.prototype.  An AST object is the node and the number of the call *)
(* of parse that created it, which tells two objects of the same shape     *)
(* apart.  parses lists the texts given to parse, history the calls made.  *)
(***************************************************************************)
\* the object a call of parse returns
AstObject(expression, created) == [ast |-> expression, created |-> created]

\* A variant of hasOwnProperty: name in object, which searches the prototype
\* chain.
hasProperty(object, name) ==
    name \in (DOMAIN object.own \cup DOMAIN object.proto)

\* Object.prototype.hasOwnProperty.call(object, name)
hasOwnProperty(object, name) == name \in DOMAIN object.own

\* this.astCache_[text]; a member inherited from Object.prototype is a
\* function, which has no type
astCacheGet(cache_, text) ==
    IF text \in DOMAIN cache_.own THEN cache_.own[text]
    ELSE AstObject([type |-> "undefined"], 0)

\* this.astCache_[text] = expression
astCacheSet(cache_, text, expression) ==
    [own |-> [t \in DOMAIN cache_.own \cup {text} |->
                IF t = text THEN expression ELSE cache_.own[t]],
     proto |-> cache_.proto]

\* what a call leaves behind and its outcome
Cached(cache_, parses_, outcome_) ==
    [astCache_ |-> cache_, parses |-> parses_, outcome |-> outcome_]

\* A variant of CachedInterpreter_interpret that parses the text on every
\* call and stores the new AST.
CachedInterpreter_interpretParsing(cache_, parses_, text, environment_) ==
    LET withExpression(expression) ==
            IF expression.kind = "throw"
            THEN Cached(cache_, Append(parses_, text),
                        Throw(expression.error, <<>>))
            ELSE Cached(astCacheSet(cache_, Join(text),
                                    AstObject(expression.value,
                                              Len(parses_) + 1)),
                        Append(parses_, text),
                        interpretExpression(expression.value, environment_))
    IN withExpression(parse(text))

\* A variant of CachedInterpreter_interpret that stores the AST once it has
\* been evaluated without an error.
CachedInterpreter_interpretStoringLast(cache_, parses_, text, environment_) ==
    IF hasOwnProperty(cache_, Join(text))
    THEN Cached(cache_, parses_,
                interpretExpression(astCacheGet(cache_, Join(text)).ast,
                                    environment_))
    ELSE
    LET withValue(expression, value) ==
            IF value.kind = "throw"
            THEN Cached(cache_, Append(parses_, text), value)
            ELSE Cached(astCacheSet(cache_, Join(text),
                                    AstObject(expression.value,
                                              Len(parses_) + 1)),
                        Append(parses_, text), value)
        withExpression(expression) ==
            IF expression.kind = "throw"
            THEN Cached(cache_, Append(parses_, text),
                        Throw(expression.error, <<>>))
            ELSE withValue(expression,
                           interpretExpression(expression.value,
                                               environment_))
    IN withExpression(parse(text))

\* A variant of CachedInterpreter_interpret that stores the outcome of the
\* first evaluation with the AST and gives it again on a hit.
CachedInterpreter_interpretMemoizing(cache_, parses_, text, environment_) ==
    IF hasOwnProperty(cache_, Join(text))
    THEN Cached(cache_, parses_, astCacheGet(cache_, Join(text)).outcome)
    ELSE
    LET withValue(expression, value) ==
            Cached(astCacheSet(cache_, Join(text),
                               [ast |-> expression.value,
                                created |-> Len(parses_) + 1,
                                outcome |-> value]),
                   Append(parses_, text), value)
        withExpression(expression) ==
            IF expression.kind = "throw"
            THEN Cached(cache_, Append(parses_, text),
                        Throw(expression.error, <<>>))
            ELSE withValue(expression,
                           interpretExpression(expression.value,
                                               environment_))
    IN withExpression(parse(text))

\* CachedInterpreter.interpret(text, environment): on a hit the stored AST is
\* evaluated; on a miss the text is parsed and, unless parse throws, the AST
\* is stored and then evaluated
CachedInterpreter_interpret(cache_, parses_, text, environment_) ==
    IF hasOwnProperty(cache_, Join(text))
    THEN Cached(cache_, parses_,
                interpretExpression(astCacheGet(cache_, Join(text)).ast,
                                    environment_))
    ELSE
    LET withExpression(expression) ==
            IF expression.kind = "throw"
            THEN Cached(cache_, Append(parses_, text),
                        Throw(expression.error, <<>>))
            ELSE Cached(astCacheSet(cache_, Join(text),
                                    AstObject(expression.value,
                                              Len(parses_) + 1)),
                        Append(parses_, text),
                        interpretExpression(expression.value, environment_))
    IN withExpression(parse(text))

\* The names of the members of Object.prototype, as formulae.
BuiltinTexts ==
    {<<"h", "a", "s", "O", "w", "n", "P", "r", "o", "p", "e", "r", "t", "y">>,
     <<"t", "o", "S", "t", "r", "i", "n", "g">>,
     <<"v", "a", "l", "u", "e", "O", "f">>}

\* Formulae given to the cached interpreter: one without names, an
\* identifier, a function call, a call that does not parse, and the names of
\* the members of Object.prototype.
CacheTexts ==
    {<<"2", " ", "+", " ", "5">>, <<"f">>,
     <<"f", "(", "2", ",", " ", "3", ")">>,
     <<"f", "(", "2", ",", " ", ")">>}
    \cup BuiltinTexts

\* The environment left out, and one in which f is registered everywhere.
CacheEnvironments == {EmptyEnvironment, Environment(Roles, FALSE, Sums)}

\* new CachedInterpreter()
CacheInit ==
    /\ pc = "cache"
    /\ input = NoAst
    /\ formula = <<>>
    /\ environment = EmptyEnvironment
    /\ outcome = NotRun
    /\ astCache_ = EmptyObject
    /\ parses = <<>>
    /\ history = <<>>
    /\ candidate = NoValue

\* interpreter.interpret(text, environment_)
CachedInterpret ==
    /\ pc = "cache"
    /\ Len(history) < MaxCalls
    /\ \E text \in CacheTexts, environment_ \in CacheEnvironments :
         LET result == CachedInterpreter_interpret(astCache_, parses, text,
                                                   environment_)
         IN /\ formula' = text
            /\ environment' = environment_
            /\ outcome' = result.outcome
            /\ astCache_' = result.astCache_
            /\ parses' = result.parses
            /\ history' = Append(history, [text |-> text,
                                           environment |-> environment_])
    /\ UNCHANGED <<pc, input, candidate>>

CacheNext == CachedInterpret

CacheSpec == CacheInit /\ [][CacheNext]_vars

(***************************************************************************)
(* Properties                                                              *)
(***************************************************************************)
\* v is the int32 that has the low bits of n
IsLowBitsOf(v, n) == v \in Int32 /\ (n - v) % TwoToWordBits = 0

\* the value an operand of the input evaluates to in the environment
ValueOf(expression) == interpretExpression(expression, environment)

EvaluatesToInt32(expression) ==
    ValueOf(expression).kind = "return" /\ ValueOf(expression).value \in Int32

\* C1: for int32 operand values a and b, a+b, a-b and a*b evaluate to the
\* low bits of the exact sum, difference and product, as a signed int32.
C1_WrappingArithmetic ==
    (/\ pc = "done"
     /\ input.type = "AstBinaryOp"
     /\ input.operator \in {"+", "-", "*"}
     /\ EvaluatesToInt32(input.left)
     /\ EvaluatesToInt32(input.right))
    => LET a == ValueOf(input.left).value
           b == ValueOf(input.right).value
           exact == CASE input.operator = "+" -> a + b
                      [] input.operator = "-" -> a - b
                      [] input.operator = "*" -> a * b
       IN outcome.kind = "return" /\ IsLowBitsOf(outcome.value, exact)

\* INT32_MAX * INT32_MAX has evaluated to 1: the product has overflowed.
C1_Witness ==
    /\ pc = "done"
    /\ input = AstBinaryOp("*", AstNumber(INT32_MAX), AstNumber(INT32_MAX))
    /\ outcome.kind = "return"
    /\ outcome.value = 1

\* C2: for int32 operand values x and y, x/y evaluates to 0 when y is 0 and
\* otherwise to the quotient truncated toward zero: the remainder it leaves
\* is smaller than y in magnitude and has the sign of x.
C2_TruncatingDivision ==
    (/\ pc = "done"
     /\ input.type = "AstBinaryOp"
     /\ input.operator = "/"
     /\ EvaluatesToInt32(input.left)
     /\ EvaluatesToInt32(input.right))
    => LET x == ValueOf(input.left).value
           y == ValueOf(input.right).value
           q == outcome.value
           r == x - q * y
       IN /\ outcome.kind = "return"
          /\ y = 0 => q = 0
          /\ y # 0 => /\ Abs(r) < Abs(y)
                      /\ r = 0 \/ (r < 0) = (x < 0)

\* (-7) / 2 has evaluated to -3, where the floored quotient is -4.
C2_Witness ==
    /\ pc = "done"
    /\ input = AstBinaryOp("/", Operand(-7), AstNumber(2))
    /\ outcome.kind = "return"
    /\ outcome.value = -3

\* C3: every value an evaluation returns is an integer in the int32 range.
C3_ResultIsInt32 ==
    (pc = "done" /\ outcome.kind = "return") => outcome.value \in Int32

\* C4: unary minus is wrapping negation: -e evaluates to the int32 that has
\* the low bits of -v, where v is the value of e; negating INT32_MIN yields
\* INT32_MIN, and the text that is a minus sign and the digits of
\* -INT32_MIN is interpreted to INT32_MIN.
C4_WrappingNegation ==
    /\ (/\ pc = "done"
        /\ input.type = "AstUnaryOp"
        /\ input.operator = "-"
        /\ ValueOf(input.expression).kind = "return")
       => LET v == ValueOf(input.expression).value
          IN /\ outcome.kind = "return"
             /\ IsLowBitsOf(outcome.value, -v)
             /\ v = INT32_MIN => outcome.value = INT32_MIN
    /\ (/\ pc = "done"
        /\ input = NoAst
        /\ formula = <<"-">> \o NumberToChars(-INT32_MIN))
       => outcome.kind = "return" /\ outcome.value = INT32_MIN

\* An identifier whose value is INT32_MIN has been negated to INT32_MIN.
C4_Witness ==
    /\ pc = "done"
    /\ input = AstUnaryOp("-", AstIdentifier("f"))
    /\ ValueOf(input.expression).kind = "return"
    /\ ValueOf(input.expression).value = INT32_MIN
    /\ outcome.kind = "return"
    /\ outcome.value = INT32_MIN

\* C5: a Conditional evaluates its condition once and then the branch the
\* condition selects (the true branch when the value is not 0, the false
\* branch when it is 0), and nothing else: the outcome is that of the
\* selected branch, and the calls made to the environment are those of the
\* condition followed by those of the selected branch.
C5_ConditionalShortCircuit ==
    (/\ pc = "done"
     /\ input.type = "AstConditional"
     /\ ValueOf(input.condition).kind = "return")
    => LET condition == ValueOf(input.condition)
           selected == IF condition.value # 0 THEN input.trueExpression
                       ELSE input.falseExpression
           branch == ValueOf(selected)
       IN /\ outcome.kind = branch.kind
          /\ outcome.value = branch.value
          /\ outcome.error = branch.error
          /\ outcome.calls = condition.calls \o branch.calls

\* The condition is 0 and the true branch is a call of a function that is
\* registered: the false branch has been returned and nothing was called.
C5_Witness ==
    /\ pc = "done"
    /\ input = AstConditional(AstNumber(0),
                              AstFunctionCall("f", AstNumber(1), AstNumber(2)),
                              AstNumber(2))
    /\ "functions" \in DOMAIN environment
    /\ "f" \in DOMAIN environment.functions.own
    /\ outcome = Return(2, <<>>)

\* the table a node looks its name up in
RoleOf(expression) ==
    CASE expression.type = "AstIdentifier" -> "identifiers"
      [] expression.type = "AstFunctionCall" -> "functions"
      [] expression.type = "AstRefFunctionCall" ->
           IF "code2" \in DOMAIN expression THEN "referenceFunctions2Q"
           ELSE "referenceFunctions"

NameOf(expression) ==
    IF expression.type = "AstIdentifier" THEN expression.name
    ELSE expression.functionName

IsNameNode(expression) ==
    expression.type \in {"AstIdentifier", "AstFunctionCall",
                         "AstRefFunctionCall"}

\* the caller has registered the name in the table of the role
Registered(env, role, name) ==
    role \in DOMAIN env /\ name \in DOMAIN env[role].own

\* C6: a name that is no own member of the table for its role (the table
\* may inherit it, or be left out of the environment) is absent: evaluating
\* the identifier, function call or reference function call raises
\* InterpreterError and calls nothing.
C6_OwnMembersOnly ==
    (/\ pc = "done"
     /\ IsNameNode(input)
     /\ ~Registered(environment, RoleOf(input), NameOf(input)))
    => /\ outcome.kind = "throw"
       /\ outcome.error.class = "D2FInterpreterError"
       /\ outcome.calls = <<>>

\* A call of myfunc, which the functions table inherits from its parent
\* class, has raised InterpreterError.
C6_Witness ==
    /\ pc = "done"
    /\ input.type = "AstFunctionCall"
    /\ input.functionName = "myfunc"
    /\ "functions" \in DOMAIN environment
    /\ "myfunc" \in DOMAIN environment.functions.proto
    /\ outcome.kind = "throw"
    /\ outcome.error.class = "D2FInterpreterError"

\* the words with which an unknown name of the role is reported
UnknownWords(role) ==
    CASE role = "identifiers" -> "Unknown identifier: "
      [] role = "functions" -> "Unknown function: "
      [] role = "referenceFunctions" ->
           "Unknown single-qualifier reference function: "
      [] role = "referenceFunctions2Q" ->
           "Unknown double-qualifier reference function: "

ParsedCall == parse(formula).value

IsReferenceCallText ==
    /\ input = NoAst
    /\ parse(formula).kind = "return"
    /\ ParsedCall.type = "AstRefFunctionCall"

\* C8: interpreting f(r.q1) calls referenceFunctions.f once with
\* (ref, "q1"), and interpreting f(r.q1.q2) calls referenceFunctions2Q.f once
\* with (ref, "q1", "q2") and not the single-qualifier function; ref is the
\* string between the quotes when r is a quoted reference and the int32 value
\* of r when r is an expression.  The function is registered for its role
\* and r is evaluated without an error.
C8_ReferenceCallDispatch ==
    (/\ pc = "done"
     /\ IsReferenceCallText
     /\ Registered(environment,
                   IF ParsedCall.identifier2 = Null THEN "referenceFunctions"
                   ELSE "referenceFunctions2Q",
                   ParsedCall.functionName)
     /\ "str" \notin DOMAIN ParsedCall.reference
          => ValueOf(ParsedCall.reference).kind = "return")
    => LET call == ParsedCall
           role == IF call.identifier2 = Null THEN "referenceFunctions"
                   ELSE "referenceFunctions2Q"
           r == IF "str" \in DOMAIN call.reference THEN Return(0, <<>>)
                ELSE ValueOf(call.reference)
           ref == IF "str" \in DOMAIN call.reference THEN call.reference
                  ELSE Num(r.value)
           qualifiers == IF call.identifier2 = Null
                         THEN <<Str(call.identifier1)>>
                         ELSE <<Str(call.identifier1), call.identifier2>>
           last == outcome.calls[Len(outcome.calls)]
       IN /\ Len(outcome.calls) = Len(r.calls) + 1
          /\ SubSeq(outcome.calls, 1, Len(r.calls)) = r.calls
          /\ last.table = role
          /\ last.name = call.functionName
          /\ last.args = <<ref>> \o qualifiers
          /\ "num" \in DOMAIN ref => ref.num \in Int32

\* the words added to the message of an error that a member of the table
\* of the role has thrown
ContextWords(role) ==
    CASE role = "identifiers" -> " (caused while evaluating identifier \""
      [] role = "functions" -> " (caused while calling function \""
      [] role = "referenceFunctions" ->
           " (caused while evaluating single-qualifier reference function \""
      [] role = "referenceFunctions2Q" ->
           " (caused while evaluating double-qualifier reference function \""

\* C9: when a call made to a member of the environment throws, it is the
\* last call made and the evaluation throws the value the member threw (the
\* same object, of the same class); when that value is an Error, its message
\* is the message it was thrown with followed by the context that names the
\* role and the symbol.
C9_ErrorPropagation ==
    pc = "done" =>
        \A i \in DOMAIN outcome.calls :
            LET call == outcome.calls[i]
                thrown == call.result.thrown
            IN call.result.kind = "throw" =>
                 /\ i = Len(outcome.calls)
                 /\ outcome.kind = "throw"
                 /\ outcome.error.id = thrown.id
                 /\ outcome.error.class = thrown.class
                 /\ instanceofError(thrown) =>
                      outcome.error.message =
                        thrown.message
                        \o <<ContextWords(call.table), call.name, ")\"">>

\* The function f has thrown the Error e1: the evaluation has thrown e1 with
\* the context added to its message.
C9_Witness ==
    /\ pc = "done"
    /\ input = AstFunctionCall("f", AstNumber(1), AstNumber(2))
    /\ outcome.kind = "throw"
    /\ outcome.error =
         [class |-> "Error", id |-> "e1",
          message |-> <<"boom", " (caused while calling function \"", "f",
                        ")\"">>]

\* C10: a value taken from the environment is coerced to int32 before it is
\* returned or used: a constant identifier and the value returned by an
\* identifier provider, a function or a reference function evaluate to the
\* int32 with the low bits of that value, and that int32 is what an enclosing
\* division returns and what an enclosing function call passes on.
C10_EnvironmentValuesCoerced ==
    /\ (/\ pc = "done"
        /\ input.type = "AstIdentifier"
        /\ Registered(environment, "identifiers", input.name)
        /\ environment.identifiers.own[input.name].kind = "number")
       => /\ outcome.kind = "return"
          /\ IsLowBitsOf(outcome.value,
                         environment.identifiers.own[input.name].value)
    /\ (/\ pc = "done"
        /\ IsNameNode(input)
        /\ outcome.kind = "return"
        /\ outcome.calls # <<>>)
       => IsLowBitsOf(outcome.value,
                      outcome.calls[Len(outcome.calls)].result.value)
    /\ (/\ pc = "done"
        /\ input.type = "AstBinaryOp"
        /\ input.operator = "/"
        /\ IsNameNode(input.left)
        /\ input.right = AstNumber(1)
        /\ outcome.kind = "return")
       => /\ outcome.value \in Int32
          /\ outcome.value = ValueOf(input.left).value
    /\ (/\ pc = "done"
        /\ input.type = "AstFunctionCall"
        /\ IsNameNode(input.arg1)
        /\ outcome.kind = "return")
       => LET last == outcome.calls[Len(outcome.calls)]
          IN /\ last.args[1].num \in Int32
             /\ last.args[1].num = ValueOf(input.arg1).value

\* The function f has returned INT32_MAX + 1 and the call has evaluated to
\* INT32_MIN.
C10_Witness ==
    /\ pc = "done"
    /\ input = AstFunctionCall("f", AstNumber(1), AstNumber(2))
    /\ outcome.calls # <<>>
    /\ outcome.calls[1].result.value = INT32_MAX + 1
    /\ outcome.kind = "return"
    /\ outcome.value = INT32_MIN

(***************************************************************************)
(* The lexer and parseInt32                                                *)
(***************************************************************************)
\* the exact value of a string of digits: the sum of its digits, each
\* weighted by the power of ten of its place
RECURSIVE PlaceValueSum(_, _)
PlaceValueSum(digits, i) ==
    IF i > Len(digits) THEN 0
    ELSE DigitValue(digits[i]) * 10 ^ (Len(digits) - i)
         + PlaceValueSum(digits, i + 1)

DecimalValue(digits) == PlaceValueSum(digits, 1)

\* the characters of the formula that a token was made of
RawChars(token) ==
    slice(formula, token.position, token.position + Len(token.rawValue))

\* C11: tokenize never fails on a run of digits, and every Number token it
\* produces carries the decimal value of its digits reduced to the word and
\* read as a signed int32.
C11_NumberTokenWraps ==
    (/\ pc = "tokenized"
     /\ \A i \in 1 .. Len(formula) : formula[i] \in DigitChars \cup {" "})
    => /\ outcome.kind = "return"
       /\ \A i \in 1 .. Len(outcome.value) :
            LET token == outcome.value[i]
            IN token.class = "NumberToken"
               => IsLowBitsOf(token.number, DecimalValue(RawChars(token)))

\* C12: for every non-empty string of digits, parseInt32 returns the exact
\* decimal value of the string reduced to the word and read as a signed
\* int32.
C12_ParseInt32Wraps ==
    pc = "parsedInt32"
    => /\ outcome.kind = "return"
       /\ IsLowBitsOf(outcome.value, DecimalValue(formula))

\* parseInt32 has returned a negative value for a string of three whole
\* chunks without a leading zero: the value has wrapped.
C12_Witness ==
    /\ pc = "parsedInt32"
    /\ Len(formula) = 3 * ChunkDigits
    /\ formula[1] # "0"
    /\ outcome.value < 0
    /\ outcome.value # DecimalValue(formula)

(***************************************************************************)
(* The parser                                                              *)
(***************************************************************************)
\* the node of an operand as it is written
OperandAst(chars) ==
    IF chars[1] \in DigitChars THEN AstNumber(DecimalValue(chars))
    ELSE AstIdentifier(Join(chars))

\* the level of a binary operator: multiplicative above additive above
\* comparison
Level(op) ==
    CASE op \in {<<"*">>, <<"/">>} -> 3
      [] op \in {<<"+">>, <<"-">>} -> 2
      [] OTHER -> 1

\* the grouping of a op1 b op2 c: to the left unless op2 is of a higher
\* level than op1
Grouping(a, op1, b, op2, c) ==
    IF Level(op1) >= Level(op2)
    THEN AstBinaryOp(Join(op2),
                     AstBinaryOp(Join(op1), OperandAst(a), OperandAst(b)),
                     OperandAst(c))
    ELSE AstBinaryOp(Join(op1), OperandAst(a),
                     AstBinaryOp(Join(op2), OperandAst(b), OperandAst(c)))

\* C13: a op1 b op2 c parses as (a op1 b) op2 c when op1 and op2 are of equal
\* precedence or op1 is of the higher one, and as a op1 (b op2 c) when op2 is
\* of the higher one, where * / are above + - and these above the
\* comparisons; interpret gives the value of that grouping.
C13_PrecedenceAndAssociativity ==
    (input = NoAst /\ formula \in TwoOperatorTexts)
    => LET \* an operand is one character; an operator is one character,
           \* or two of which the second is =
           last == Len(formula)
           end1 == IF formula[3] = "=" THEN 3 ELSE 2
           a == SubSeq(formula, 1, 1)
           op1 == SubSeq(formula, 2, end1)
           b == SubSeq(formula, end1 + 1, end1 + 1)
           op2 == SubSeq(formula, end1 + 2, last - 1)
           c == SubSeq(formula, last, last)
       IN /\ pc = "parsed"
             => /\ outcome.kind = "return"
                /\ outcome.value = Grouping(a, op1, b, op2, c)
          /\ pc = "done"
             => outcome = interpretExpression(Grouping(a, op1, b, op2, c),
                                              environment)

\* 3+2*3 has been interpreted to 9, the value of 3+(2*3) and not of (3+2)*3.
C13_Witness ==
    /\ pc = "done"
    /\ formula = <<"3", "+", "2", "*", "3">>
    /\ outcome.kind = "return"
    /\ outcome.value = 9

\* the node of p1?p2:p3 written from the character first of the formula on
ConditionalAt(first) ==
    AstConditional(OperandAst(SubSeq(formula, first, first)),
                   OperandAst(SubSeq(formula, first + 2, first + 2)),
                   OperandAst(SubSeq(formula, first + 4, first + 4)))

\* the AST that the claim gives to a text with a conditional in it
ConditionalGrouping ==
    LET last == Len(formula)
        between == SubSeq(formula, 2, last - 5)
        negated == between \notin OperatorChars
        op == IF negated THEN SubSeq(between, 1, Len(between) - 1)
              ELSE between
    IN
    CASE formula \in ConditionalFirstTexts ->
           AstBinaryOp(Join(SubSeq(formula, 6, last - 1)), ConditionalAt(1),
                       OperandAst(SubSeq(formula, last, last)))
      [] formula \in ConditionalLastTexts ->
           AstBinaryOp(Join(op), OperandAst(SubSeq(formula, 1, 1)),
                       IF negated
                       THEN AstUnaryOp("-", ConditionalAt(last - 4))
                       ELSE ConditionalAt(last - 4))
      [] formula \in ConditionalChainTexts ->
           AstConditional(ConditionalAt(1),
                          OperandAst(SubSeq(formula, 7, 7)),
                          OperandAst(SubSeq(formula, 9, 9)))
      [] formula \in NegatedConditionalTexts ->
           AstUnaryOp("-", ConditionalAt(2))
      [] formula = ConditionalExample ->
           AstBinaryOp("+",
               AstBinaryOp("*", ConditionalAt(1), AstNumber(3)),
               AstNumber(4))

\* C14: a conditional is one operand of the operators around it: p1?p2:p3
\* followed by a binary operator is its left operand, after a binary
\* operator (and a minus sign) it is the right operand (the operand of the
\* minus sign), and p1?p2:p3?p4:p5 is the conditional whose condition is
\* p1?p2:p3; interpret gives the value of that grouping.
C14_ConditionalBindsTightest ==
    (input = NoAst /\ formula \in ConditionalTexts)
    => /\ pc = "parsed"
          => outcome.kind = "return" /\ outcome.value = ConditionalGrouping
       /\ pc = "done"
          => outcome = interpretExpression(ConditionalGrouping, environment)

\* 0?1:2*3+4 has been interpreted to 10, the value of ((0?1:2)*3)+4.
C14_Witness ==
    /\ pc = "done"
    /\ formula = ConditionalExample
    /\ outcome.kind = "return"
    /\ outcome.value = 10

\* the formula has tokens only, and either none or some that are left after
\* its top-level expression
HasLeftoverToken ==
    LET tokens == tokenize(formula)
        atTop(expression) ==
            /\ expression.kind = "return"
            /\ expression.index < Len(tokens.value)
    IN /\ tokens.kind = "return"
       /\ \/ tokens.value = <<>>
          \/ atTop(parseExpression(tokens.value, 0, 0))

\* C15: when a token is left after the top-level expression, and when the
\* text has no token at all, parse throws a D2FSyntaxError.
C15_LeftoverTokenIsSyntaxError ==
    (pc = "parsed" /\ formula \in LeftoverTexts /\ HasLeftoverToken)
    => /\ outcome.kind = "throw"
       /\ outcome.error.class = "D2FSyntaxError"

\* the types of node that the grammar names
NodeTypes ==
    {"AstNumber", "AstIdentifier", "AstBinaryOp", "AstUnaryOp",
     "AstConditional", "AstFunctionCall", "AstRefFunctionCall"}

\* every node of the expression is of one of the types of NodeTypes
RECURSIVE HasOnlyNodeTypes(_)
HasOnlyNodeTypes(expression) ==
    CASE "str" \in DOMAIN expression -> TRUE
      [] expression.type = "AstBinaryOp" ->
           /\ HasOnlyNodeTypes(expression.left)
           /\ HasOnlyNodeTypes(expression.right)
      [] expression.type = "AstUnaryOp" ->
           HasOnlyNodeTypes(expression.expression)
      [] expression.type = "AstConditional" ->
           /\ HasOnlyNodeTypes(expression.condition)
           /\ HasOnlyNodeTypes(expression.trueExpression)
           /\ HasOnlyNodeTypes(expression.falseExpression)
      [] expression.type = "AstFunctionCall" ->
           /\ HasOnlyNodeTypes(expression.arg1)
           /\ HasOnlyNodeTypes(expression.arg2)
      [] expression.type = "AstRefFunctionCall" ->
           HasOnlyNodeTypes(expression.reference)
      [] OTHER -> expression.type \in NodeTypes

\* C16: the text ( e ) parses to the AST that e parses to, and every node of
\* an AST returned by parse is a Number, Identifier, BinaryOp, UnaryOp,
\* Conditional, FunctionCall or RefFunctionCall.
C16_ParenthesesProduceNoNode ==
    pc = "parsed"
    => /\ outcome.kind = "return" => HasOnlyNodeTypes(outcome.value)
       /\ (/\ Len(formula) > 2
           /\ formula[1] = "("
           /\ formula[Len(formula)] = ")"
           /\ parse(SubSeq(formula, 2, Len(formula) - 1)).kind = "return")
          => /\ outcome.kind = "return"
             /\ outcome.value =
                  parse(SubSeq(formula, 2, Len(formula) - 1)).value

\* parse has thrown a D2FSyntaxError
ThrowsSyntaxError ==
    outcome.kind = "throw" /\ outcome.error.class = "D2FSyntaxError"

\* parse has returned the call of f with the reference and the dot-codes
\* written
ReturnsReferenceCall(e, codes) ==
    /\ outcome.kind = "return"
    /\ outcome.value =
         AstRefFunctionCall("f", parse(e).value, "q",
                            IF codes = <<".", "q">> THEN Null ELSE Str("p"))

\* C17: f(e.q) and f(e.q.p) are a D2FSyntaxError when e is a unary, binary
\* or conditional expression without parentheses, and parse to a reference
\* function call when e is a number, an identifier or a call.
C17_NonPrimaryOperandRejected ==
    pc = "parsed"
    => \A codes \in DotCodeChars :
         /\ \A e \in NonPrimaryOperandChars :
              formula = ReferenceCallOf(e, codes) => ThrowsSyntaxError
         /\ \A e \in PrimaryOperandChars :
              formula = ReferenceCallOf(e, codes)
              => ReturnsReferenceCall(e, codes)

\* C18 as stated: f((e).q) and f((e).q.p) are a D2FSyntaxError.
C18_ParenthesizedOperandRejected ==
    pc = "parsed"
    => \A codes \in DotCodeChars, e \in ParenthesizedOperandChars :
         formula = ReferenceCallOf(e, codes) => ThrowsSyntaxError

\* C18: a parenthesized expression is an allowed reference operand:
\* f((e).q) and f((e).q.p) parse to the reference function call of f whose
\* reference is what (e) parses to.
C18_ParenthesizedOperandAccepted ==
    pc = "parsed"
    => \A codes \in DotCodeChars, e \in ParenthesizedOperandChars :
         formula = ReferenceCallOf(e, codes)
         => ReturnsReferenceCall(e, codes)

\* f((5 == 3).q) has been parsed to a reference function call of f.
C18_Witness ==
    /\ pc = "parsed"
    /\ formula = ReferenceCallOf(<<"(", "5", " ", "=", "=", " ", "3", ")">>,
                                 <<".", "q">>)
    /\ outcome.kind = "return"
    /\ outcome.value.type = "AstRefFunctionCall"
    /\ outcome.value.functionName = "f"

\* C19: a call parses to a function call when two expressions separated by
\* a comma are written, to a reference function call without second
\* qualifier when one dot-code is, and with it when two are; a call of any
\* other shape is a D2FSyntaxError.
C19_CallShapes ==
    pc = "parsed"
    => /\ \A k \in CallCases :
            formula = k.text
            => outcome.kind = "return" /\ outcome.value = k.node
       /\ formula \in MalformedCallTexts => ThrowsSyntaxError

\* C20: every error thrown by tokenize and by parse is a D2FSyntaxError.
C20_FailuresAreSyntaxErrors ==
    (pc \in {"tokenized", "parsed"} /\ outcome.kind = "throw")
    => outcome.error.class = "D2FSyntaxError"

\* the characters are one letter followed by letters and digits only
IsLettersAndDigits(chars) ==
    /\ chars # <<>>
    /\ chars[1] \in LetterChars
    /\ \A i \in 1 .. Len(chars) : chars[i] \in LetterChars \cup DigitChars

\* the characters of the name of an Identifier token, and of the code of a
\* DotCode token
NameChars(token) ==
    IF token.class = "DotCodeToken"
    THEN SubSeq(RawChars(token), 2, Len(RawChars(token)))
    ELSE RawChars(token)

\* the formula has an underscore that is not between two quotes
UnderscoreOutsideReference ==
    \E i \in 1 .. Len(formula) :
        /\ formula[i] = "_"
        /\ Cardinality({j \in 1 .. (i - 1) : formula[j] = "'"}) % 2 = 0

\* C21: the name of every Identifier and DotCode token is one letter followed
\* by letters and digits, no token other than a quoted reference holds an
\* underscore, and a text with an underscore outside a quoted reference
\* makes tokenize throw a D2FSyntaxError.
C21_IdentifierCharacters ==
    pc = "tokenized"
    => /\ outcome.kind = "return"
          => \A i \in 1 .. Len(outcome.value) :
               LET token == outcome.value[i]
               IN /\ token.class \in {"IdentifierToken", "DotCodeToken"}
                     => IsLettersAndDigits(NameChars(token))
                  /\ token.class # "ReferenceToken"
                     => \A k \in 1 .. Len(RawChars(token)) :
                          RawChars(token)[k] # "_"
       /\ UnderscoreOutsideReference => ThrowsSyntaxError

\* C22: a text with a letter right after a run of digits makes tokenize
\* throw a D2FSyntaxError, and tokenize never returns a Number token with
\* an Identifier token right after its last digit.
C22_DigitsThenLetterRejected ==
    pc = "tokenized"
    => /\ formula \in DigitLetterTexts => ThrowsSyntaxError
       /\ outcome.kind = "return"
          => \A i \in 1 .. (Len(outcome.value) - 1) :
               LET token == outcome.value[i]
                   following == outcome.value[i + 1]
               IN ~ /\ token.class = "NumberToken"
                    /\ following.class = "IdentifierToken"
                    /\ following.position
                         = token.position + Len(token.rawValue)

(***************************************************************************)
(* The cached interpreter                                                  *)
(***************************************************************************)
\* the texts of the calls made so far
TextsSeen == {history[i].text : i \in DOMAIN history}

\* those of them that parse
TextsParsed == {t \in TextsSeen : parse(t).kind = "return"}

\* the calls of parse made with the text
ParsesOf(t) == {i \in DOMAIN parses : parses[i] = t}

\* C23: after any sequence of calls on one cache, each distinct text that
\* has parsed is a key mapped to exactly one AST object, the one created by
\* its first successful parse: the text was parsed once, by the call of parse
\* that created the stored object, and the cache has as many entries as
\* distinct texts that have parsed.
C23_OneAstPerText ==
    pc = "cache" =>
      /\ DOMAIN astCache_.own = {Join(t) : t \in TextsParsed}
      /\ Cardinality(DOMAIN astCache_.own) = Cardinality(TextsParsed)
      /\ \A t \in TextsParsed :
            /\ Cardinality(ParsesOf(t)) = 1
            /\ \A i \in ParsesOf(t) :
                 astCache_.own[Join(t)] = AstObject(parse(t).value, i)

\* a text interpreted twice and another one, both stored
C23_Witness ==
    /\ pc = "cache"
    /\ Len(history) = 3
    /\ history[1].text = history[2].text
    /\ history[3].text # history[1].text
    /\ Cardinality(DOMAIN astCache_.own) = 2
    /\ Len(parses) = 2

\* C24: after a call on a text that is not in the cache, the text is a key
\* if and only if it parses: a text that does not parse leaves the cache as
\* it was, and a text that parses is stored with its AST, whatever the
\* evaluation then does.
C24_StoredIffParsed ==
    [][(history' # history /\ Join(formula') \notin DOMAIN astCache_.own) =>
         IF parse(formula').kind = "throw"
         THEN /\ astCache_' = astCache_
              /\ outcome'.kind = "throw"
              /\ outcome'.calls = <<>>
         ELSE /\ DOMAIN astCache_'.own =
                   DOMAIN astCache_.own \cup {Join(formula')}
              /\ astCache_'.own[Join(formula')].ast = parse(formula').value
              /\ \A t \in DOMAIN astCache_.own :
                   astCache_'.own[t] = astCache_.own[t]]_vars

\* a text that does not parse was interpreted and nothing was stored, then a
\* text whose evaluation fails with an InterpreterError was and is stored
C24_Witness ==
    /\ pc = "cache"
    /\ Len(history) = 2
    /\ parse(history[1].text).kind = "throw"
    /\ DOMAIN astCache_.own = {Join(formula)}
    /\ outcome.kind = "throw"
    /\ outcome.error.class = "D2FInterpreterError"

\* C25: after any sequence of earlier calls on the same cache, a call of the
\* cached interpret has exactly the outcome of interpret for its text and its
\* environment: the same value or the same error, after the same calls of
\* the members of the environment given to this call.
C25_SameOutcomeAsUncached ==
    (pc = "cache" /\ history # <<>>) =>
        outcome = interpret(formula, environment)

\* a text interpreted in an environment where it has no value, then on a hit
\* in an environment whose member gives its value
C25_Witness ==
    /\ pc = "cache"
    /\ Len(history) = 2
    /\ history[1].text = history[2].text
    /\ history[1].environment = EmptyEnvironment
    /\ history[2].environment # EmptyEnvironment
    /\ Len(parses) = 1
    /\ outcome.kind = "return"
    /\ outcome.calls # <<>>

\* C26: a text that is the name of a member of Object.prototype is a miss on
\* first use: it is parsed once, as an identifier, and stored as an entry of
\* its own; in the empty environment its evaluation raises an
\* InterpreterError; once the three names have been interpreted and nothing
\* else, the cache has three entries.
C26_BuiltinNamesAreFormulae ==
    pc = "cache" =>
      /\ \A t \in TextsSeen \cap BuiltinTexts :
            /\ Cardinality(ParsesOf(t)) = 1
            /\ Join(t) \in DOMAIN astCache_.own
            /\ astCache_.own[Join(t)].ast = AstIdentifier(Join(t))
            /\ astCache_.own[Join(t)].created \in ParsesOf(t)
      /\ (formula \in BuiltinTexts /\ environment = EmptyEnvironment) =>
            /\ outcome.kind = "throw"
            /\ outcome.error.class = "D2FInterpreterError"
      /\ TextsSeen = BuiltinTexts =>
            Cardinality(DOMAIN astCache_.own) = 3

\* the three names have been interpreted in the empty environment
C26_Witness ==
    /\ pc = "cache"
    /\ Len(history) = 3
    /\ TextsSeen = BuiltinTexts
    /\ \A i \in DOMAIN history : history[i].environment = EmptyEnvironment
    /\ Cardinality(DOMAIN astCache_.own) = 3
    /\ outcome.error.class = "D2FInterpreterError"

(***************************************************************************)
(* Evaluation of what parse returns                                        *)
(***************************************************************************)
\* C27: for every text that parse accepts and every environment, the
\* evaluation does not raise an InternalError: every node that parse builds,
\* the one it builds for a parenthesized expression included, is handled by
\* the evaluator.
C27_NoInternalErrorOnParsedText ==
    (pc = "done" /\ input = NoAst /\ parse(formula).kind = "return") =>
        ~(outcome.kind = "throw"
          /\ outcome.error.class = "D2CalcInternalError")

(***************************************************************************)
(* Order of evaluation of a function call                                  *)
(***************************************************************************)
\* C28: evaluating a call of a registered function makes the calls of the
\* evaluation of the first argument, then those of the second, and then one
\* call of the function with the two values in that order; when an argument
\* raises, the calls stop there and the function is not called.  When the
\* name of the function, or of the reference function, is not registered,
\* an InterpreterError is raised and nothing is called.
C28_ArgumentsThenFunction ==
    (pc = "done" /\ input # NoAst /\ IsNameNode(input)
     /\ input.type # "AstIdentifier") =>
      IF ~Registered(environment, RoleOf(input), NameOf(input))
      THEN /\ outcome.kind = "throw"
           /\ outcome.error.class = "D2FInterpreterError"
           /\ outcome.calls = <<>>
      ELSE input.type = "AstFunctionCall" =>
        LET value1 == interpretExpression(input.arg1, environment)
            value2 == interpretExpression(input.arg2, environment)
            last == outcome.calls[Len(outcome.calls)]
        IN IF value1.kind = "throw"
           THEN outcome.kind = "throw" /\ outcome.calls = value1.calls
           ELSE IF value2.kind = "throw"
           THEN /\ outcome.kind = "throw"
                /\ outcome.calls = value1.calls \o value2.calls
           ELSE /\ Len(outcome.calls) = Len(value1.calls) + Len(value2.calls) + 1
                /\ SubSeq(outcome.calls, 1, Len(outcome.calls) - 1) =
                     value1.calls \o value2.calls
                /\ last.table = "functions"
                /\ last.name = input.functionName
                /\ last.args = <<Num(value1.value), Num(value2.value)>>

\* a call whose arguments call two different members and give two different
\* values
C28_Witness ==
    /\ pc = "done"
    /\ input = AstFunctionCall("f",
                   AstFunctionCall("f", AstNumber(1), AstNumber(2)),
                   AstIdentifier("f"))
    /\ outcome.kind = "return"
    /\ Len(outcome.calls) = 3
    /\ outcome.calls[1].table = "functions"
    /\ outcome.calls[2].table = "identifiers"
    /\ outcome.calls[3].args = <<Num(3), Num(0)>>

(***************************************************************************)
(* Parsing ends before evaluation starts                                   *)
(***************************************************************************)
\* C29: interpret parses the whole text before it evaluates anything: when
\* the text has a syntax error anywhere, a SyntaxError is raised and no
\* member of the environment is called; when the text parses, the error
\* raised by the evaluation, if any, is not a SyntaxError.
C29_SyntaxErrorBeforeEvaluation ==
    (pc = "done" /\ input = NoAst) =>
      IF parse(formula).kind = "throw"
      THEN /\ outcome.kind = "throw"
           /\ outcome.error.class = "D2FSyntaxError"
           /\ outcome.calls = <<>>
      ELSE ~(outcome.kind = "throw"
             /\ outcome.error.class = "D2FSyntaxError")

(***************************************************************************)
(* isInt32                                                                 *)
(***************************************************************************)
\* C30: isInt32(value) returns true exactly when value is a number equal to
\* its int32 coercion, and returns false, raising nothing, for every other
\* value: undefined, null, a boolean, a numeric string, an object, an array,
\* a function, a symbol.
C30_IsInt32NeverRaises ==
    pc = "checkedInt32" =>
        /\ outcome.kind = "return"
        /\ outcome.value =
             (/\ candidate.kind = "number"
              /\ ~candidate.nan
              /\ candidate.number \in Int32)

====
